---- MODULE Spec2Model ----
(***************************************************************************)
(* State-machine model of the egg-collecting robot's control core:         *)
(*   - ControlStateMachine + ControlContext (src/src/state_machine),       *)
(*   - CommandScheduler and EventBus (src/src/services),                   *)
(*   - ControlEngine's dispatch loop (src/src/state_machine/controller.py),*)
(*   - SharedSerialBus, ActorLink and ArmLink                              *)
(*     (src/Robot-Egg-Collector/src/serial_io).                            *)
(* Each component has its own specification over the shared variables; a   *)
(* specification leaves the other components' variables unchanged.         *)
(***************************************************************************)
EXTENDS FiniteSets, Integers, Naturals, Sequences, TLC

(***************************************************************************)
(* Bounds of the model.                                                    *)
(***************************************************************************)
\* Longest detection list a Detection event carries.
MaxDetections == 1

\* start() calls outstanding on one bus.
MaxUsage == 2

\* Frames on the wire not yet read.
MaxWire == 1

\* Capacity of the event queue (the program's is larger; the queue's
\* behaviour at capacity does not depend on the number).
QueueMaxSize == 3

\* Longest payload (group byte included) drawn byte by byte for the codec;
\* longer ones are drawn as one byte repeated.
MaxPayloadLen == 3

\* Most stray bytes before, and after, a frame on the line.
MaxNoise == 2

\* Listener ids the bus issues (the two links' included).
MaxListenerIds == 3

\* Most passes of the extract_frames loop counted in one call; more than
\* the longest buffer has bytes.
MaxPasses == 20

\* Most Serial objects the bus makes in one run.
MaxHandles == 3

\* Most stop Events (and readers) the bus makes in one run.
MaxEvents == 3

\* Most calls made on one link (commands and status reads together).
MaxCalls == 2

(***************************************************************************)
(* Program constants.                                                      *)
(***************************************************************************)
max_arm_pick_attempts == 3
distance_stop_threshold_cm == 30
\* detection_center_tolerance = 0.2 and detection_min_confidence = 0.5, in percent.
detection_center_tolerance == 20
detection_min_confidence == 50
\* Width of the camera frame (config resolution).
image_width == 640
\* ActorStatus.distance_cm = None.
NoDistance == -1

(***************************************************************************)
(* Data.                                                                   *)
(***************************************************************************)
States == {"Idle", "ScanAndMove", "PickUpEgg", "TurnFirst", "ScanOnly", "MoveOnly", "TurnSecond"}

ActorMotion == {"STOPPED", "FORWARD", "TURNING"}

TimerId == {"ACTOR_STATUS", "ARM_STATUS", "SCAN_ONLY_TIMEOUT", "MOVE_ONLY_COUNTDOWN", "TURN_CHECK"}

\* Detections the vision pipeline can report for the entry at index i of a frame's
\* list (YoloDetector gives each detection its index as id): confidence in
\* percent, bbox in pixels.  A pick candidate at index 0 is an egg 80 px
\* left of the image centre (centre 240); at a later
\* index it lies nearer the centre (centre 325 - i).  The other shape is a
\* central egg below the confidence threshold.
Candidate(i) ==
    IF i = 0 THEN [id |-> 0, confidence |-> 90, x1 |-> 200, x2 |-> 280, y1 |-> 240, y2 |-> 300]
    ELSE [id |-> i, confidence |-> 90, x1 |-> 300 - i, x2 |-> 350 - i, y1 |-> 100, y2 |-> 141]

LowConfidence(i) ==
    [id |-> i, confidence |-> 40, x1 |-> 310, x2 |-> 330, y1 |-> 10, y2 |-> 20]

DetectionIds == 0 .. (MaxDetections - 1)

\* The detection lists of length at most MaxDetections.
DetectionLists ==
    UNION { { [k \in 1 .. n |-> IF shape[k] THEN Candidate(k - 1) ELSE LowConfidence(k - 1)]
              : shape \in [1 .. n -> BOOLEAN] } : n \in 0 .. MaxDetections }

Distances == {NoDistance, distance_stop_threshold_cm, distance_stop_threshold_cm + 1}

ActorStatuses == [is_moving : BOOLEAN, distance_cm : Distances]

ArmStatuses == [is_busy : BOOLEAN]

\* What a call into a link can do: return true (ACK), return false (no ACK in
\* time, or a bad CRC), or raise (the bus could not open or write the port).
LinkResults == {"ack", "nack", "raise"}

\* FrameCodec.HEADER is HEADER_BYTE twice (0x24 0x24), FOOTER is FOOTER_BYTE
\* twice (0x23 0x23).
HEADER_BYTE == 36

FOOTER_BYTE == 35

\* header + length + group + crc + footer.
MIN_FRAME_SIZE == 7

\* A byte is what `& 0xFF` leaves: the values below ByteRange.
ByteRange == 256

\* Frame groups and the ACK byte of the serial protocol.
GROUP_COMMAND == 4

GROUP_STATUS == 3

ACK == 255
\* ArmCommand.READ_STATUS.
ARM_READ_STATUS == 81
\* The length byte the arm's frames are built with.
ARM_FIXED_LENGTH == 6
\* Largest coordinate a pick frame carries (0xFFFF).
MaxCoord == 65535

\* The frames a device can put on the wire, as the codec decodes them: a
\* status frame, and an ACK whose checksum byte is right or wrong.
Frames ==
    { [group |-> GROUP_STATUS, first |-> 0, crc_ok |-> TRUE],
      [group |-> GROUP_COMMAND, first |-> ACK, crc_ok |-> TRUE],
      [group |-> GROUP_COMMAND, first |-> ACK, crc_ok |-> FALSE] }

VARIABLES
    \* ControlStateMachine
    state,
    \* ControlContext
    latest_actor_status,
    pick_queue, pick_attempts, current_target, waiting_for_arm, actor_motion,
    \* CommandScheduler
    sched_tasks, sched_lock, sched_pc, sched_op,
    \* the thread that runs the FSM handlers: "run", or "blocked" for ever
    dispatch_thread,
    \* history of the last handled event
    ev_result, ev_cmds, ev_trans,
    \* history: last command sent to the actor, arm.pick calls of the current PickUpEgg cycle
    last_actor_cmd, cycle_picks,
    \* history: some arm.pick so far was not acknowledged
    pick_refused,
    \* SharedSerialBus
    usage_count, reader_thread, serial_open, pending_waits,
    \* the port: whether it can be opened and written, and the frames the
    \* devices have sent that the reader has not read yet
    port_ok, wire,
    \* a link command in progress on each link: position, its _PendingWait, what request returned
    req_pc, req_wait, req_ret,
    \* history: last frame handed to the listeners, last lifecycle call, and
    \* per link whether it is started ("started"), was started and has shut
    \* down ("shut"), or has not been started ("new")
    listener_frame, bus_call, link_started,
    \* EventBus queue, the engine's loop and its stop flag
    ev_queue, loop_pc, stop_event,
    \* history: event_bus.stop was called, last event handed to _dispatch_event
    stop_requested, dispatched,
    \* FrameCodec: the payload to encode, the receive buffer, the frames
    \* extract_frames returned, and how far the round trip has got
    codec_payload, codec_buffer, codec_frames, codec_pc,
    \* the reader feeding the codec: the bytes still on the line, the buffer
    \* the running call was given, the frames dispatched so far, the length
    \* byte the frame was written with, the passes of the running call
    codec_stream, codec_entry, codec_dispatched, codec_length, codec_passes,
    \* SharedSerialBus listeners: the registered ids in registration order and
    \* the next id; _dispatch_frame: where it is, its frame, whether a wait
    \* took it, the listeners it iterates over and the calls it has made
    listeners, next_listener_id, fan_pc, fan_frame, fan_handled, fan_snapshot, fan_log,
    \* the port handle of the bus step by step: self._serial (0 for None, else
    \* the number of a Serial object), is_open of every Serial object made so
    \* far, how many were made, where each thread is in _ensure_serial,
    \* send_frame or _reader_loop, and how its last call ended
    serial_ref, handle_open, handles_made, port_pc, port_result,
    \* start() and stop() step by step: self._stop_event (0 for None, else
    \* the number of an Event), which Events are set, how many were made
    \* (the reader launched with Event e runs until e is set), where each
    \* calling thread is, and the Event that was current when its stop()
    \* brought the count to 0
    bus_stop_event, event_set, events_made, life_pc, life_seen,
    \* the two links on one bus: the call in progress on each link ("none",
    \* "command" or "status") and its number, what the last call returned,
    \* the status each link has cached, and the requests the devices have
    \* received and not answered yet
    link_call, link_seq, link_ret, link_last_status, dev_pending

fsmVars == <<state, latest_actor_status,
             pick_queue, pick_attempts, current_target, waiting_for_arm, actor_motion,
             dispatch_thread, ev_result, ev_cmds, ev_trans, last_actor_cmd, cycle_picks,
             pick_refused>>

schedVars == <<sched_tasks, sched_lock, sched_pc, sched_op>>

busVars == <<usage_count, reader_thread, serial_open, pending_waits, port_ok, wire,
             req_pc, req_wait, req_ret, listener_frame, bus_call, link_started>>

engineVars == <<ev_queue, loop_pc, stop_event, stop_requested, dispatched>>

codecVars == <<codec_payload, codec_buffer, codec_frames, codec_pc,
              codec_stream, codec_entry, codec_dispatched, codec_length, codec_passes>>

fanVars == <<listeners, next_listener_id, fan_pc, fan_frame, fan_handled, fan_snapshot, fan_log>>

portVars == <<serial_ref, handle_open, handles_made, port_pc, port_result>>

lifeVars == <<bus_stop_event, event_set, events_made, life_pc, life_seen>>

linkVars == <<link_call, link_seq, link_ret, link_last_status, dev_pending>>

vars == <<fsmVars, schedVars, busVars, engineVars, codecVars, fanVars, portVars, lifeVars,
          linkVars>>

(***************************************************************************)
(* Sequential code as set-valued steps.  A handler is run on a record c    *)
(* holding the program state plus                                          *)
(*   c.ret   the value the last call returned,                             *)
(*   c.halt  "run", "raised" (an exception is propagating: the rest of the *)
(*           handler is skipped) or "blocked" (the thread waits for ever). *)
(* A step maps c to the set of records it can end in (several when a link  *)
(* call can answer in several ways).                                       *)
(***************************************************************************)
Then(S, F(_)) == UNION { IF x.halt = "run" THEN F(x) ELSE {x} : x \in S }

Abs(n) == IF n < 0 THEN 0 - n ELSE n

Max(a, b) == IF a >= b THEN a ELSE b

Min(a, b) == IF a <= b THEN a ELSE b

(***************************************************************************)
(* CommandScheduler, as called from one thread t.                          *)
(***************************************************************************)
\* `with self._lock`: threading.Lock is not reentrant, so a thread that asks
\* for a lock that is taken (by itself included) waits.
lock_acquire(c, t) ==
    IF c.sched_lock = "free" THEN {[c EXCEPT !.sched_lock = t]}
    ELSE {[c EXCEPT !.halt = "blocked"]}

lock_release(c) == {[c EXCEPT !.sched_lock = "free"]}

\* CommandScheduler.cancel inside its `with`: pop the task; the task's
\* thread is stopped after the lock is released.
cancel_locked(c, timer_id) == lock_release([c EXCEPT !.sched_tasks = @ \ {timer_id}])

cancel(c, t, timer_id) ==
    Then(lock_acquire(c, t), LAMBDA a: cancel_locked(a, timer_id))

\* CommandScheduler.schedule_once inside its `with`: cancel the old task,
\* register the new one and start its thread.
schedule_once_locked(c, t, timer_id) ==
    Then(cancel(c, t, timer_id), LAMBDA b:
        lock_release([b EXCEPT !.sched_tasks = @ \cup {timer_id}]))

schedule_once(c, t, timer_id) ==
    Then(lock_acquire(c, t), LAMBDA a: schedule_once_locked(a, t, timer_id))

\* CommandScheduler.start_interval: the same shape, with a periodic task.
start_interval_locked(c, t, timer_id) ==
    Then(cancel(c, t, timer_id), LAMBDA b:
        lock_release([b EXCEPT !.sched_tasks = @ \cup {timer_id}]))

start_interval(c, t, timer_id) ==
    Then(lock_acquire(c, t), LAMBDA a: start_interval_locked(a, t, timer_id))

(***************************************************************************)
(* ActorLink and ArmLink as the context sees them.                         *)
(***************************************************************************)
\* ActorLink._send_command: one request on the bus.
actor_send_command(c, command) ==
    { [c EXCEPT !.ret = (r = "ack"),
                !.halt = IF r = "raise" THEN "raised" ELSE "run",
                !.last_actor_cmd = command,
                !.ev_cmds = Append(@, [dev |-> "actor", cmd |-> command, res |-> r, st |-> c.state])]
      : r \in LinkResults }

\* ArmLink.pick(x_mm, y_mm), called for a target with coords = <<x_mm, y_mm>>.
arm_pick(c, target, coords) ==
    { [c EXCEPT !.ret = (r = "ack"),
                !.halt = IF r = "raise" THEN "raised" ELSE "run",
                !.cycle_picks[target.id] = Min(@ + 1, max_arm_pick_attempts + 1),
                !.ev_cmds = Append(@, [dev |-> "arm", cmd |-> "PICK", arg |-> target.id,
                                         x |-> coords[1], y |-> coords[2],
                                         res |-> r, st |-> c.state])]
      : r \in LinkResults }

(***************************************************************************)
(* ControlContext.                                                         *)
(***************************************************************************)
\* Detection.center()[0], doubled to stay in the integers.
center2(det) == 2 * det.x1 + Max(0, det.x2 - det.x1)

\* Detection.center()[1], doubled.
center2_y(det) == 2 * det.y1 + Max(0, det.y2 - det.y1)

\* int(round(v)) for v = n2 / 2 >= 0: Python rounds a half to the even neighbour.
round_half(n2) ==
    LET k == n2 \div 2 IN
    IF n2 % 2 = 0 THEN k
    ELSE IF k % 2 = 0 THEN k ELSE k + 1

\* ControlContext._map_detection_to_mm: (0, 0) without a frame, else the
\* rounded centre of the bbox.
map_detection_to_mm(has_frame, detection) ==
    IF ~has_frame THEN <<0, 0>>
    ELSE <<round_half(center2(detection)), round_half(center2_y(detection))>>

update_detections(c, detections) ==
    {[c EXCEPT !.current_detections = detections, !.current_frame = TRUE]}

update_actor_status(c, status) ==
    {[c EXCEPT !.latest_actor_status = <<status>>,
               !.actor_motion = IF status.is_moving
                                THEN (IF @ = "STOPPED" THEN "FORWARD" ELSE @)
                                ELSE "STOPPED"]}

update_arm_status(c, status) ==
    {[c EXCEPT !.latest_arm_status = <<status>>,
               !.waiting_for_arm = IF ~status.is_busy /\ @ THEN FALSE ELSE @]}

\* |cx - width/2| <= width * tolerance, and confidence >= the minimum.
is_candidate(det) ==
    /\ ~(det.confidence < detection_min_confidence)
    /\ 100 * Abs(center2(det) - image_width) <= 2 * image_width * detection_center_tolerance

filter_candidates(c) ==
    IF ~c.current_frame THEN <<>>
    ELSE SelectSeq(c.current_detections, is_candidate)

has_pick_candidates(c) == filter_candidates(c) # <<>>

sort_key(det) == Abs(center2(det) - image_width)

RECURSIVE insert_sorted(_, _)
\* Insert det after every element whose key is <= its own (list.sort is stable).
insert_sorted(s, det) ==
    IF s = <<>> THEN <<det>>
    ELSE IF sort_key(Head(s)) <= sort_key(det)
         THEN <<Head(s)>> \o insert_sorted(Tail(s), det)
         ELSE <<det>> \o s

RECURSIVE sort_by_proximity(_)
sort_by_proximity(s) ==
    IF s = <<>> THEN <<>>
    ELSE insert_sorted(sort_by_proximity(SubSeq(s, 1, Len(s) - 1)), s[Len(s)])

prepare_pick_queue(c) ==
    LET candidates == filter_candidates(c) IN
    IF candidates = <<>>
    THEN {[c EXCEPT !.pick_queue = <<>>, !.ret = FALSE]}
    ELSE IF ~c.current_frame
    THEN {[c EXCEPT !.ret = FALSE]}
    ELSE {[c EXCEPT !.pick_queue = sort_by_proximity(candidates), !.ret = TRUE]}

refresh_pick_queue(c) ==
    IF c.pick_queue = <<>> THEN prepare_pick_queue(c) ELSE {c}

\* `attempts >= max_arm_pick_attempts`: the target is skipped.
attempts_exhausted(attempts) == attempts >= max_arm_pick_attempts

RECURSIVE pick_loop(_)
\* The `while self._pick_queue` loop of command_next_pick.
pick_loop(c) ==
    IF c.pick_queue = <<>>
    THEN {[c EXCEPT !.current_target = <<>>, !.ret = FALSE]}
    ELSE LET target == Head(c.pick_queue)
             attempts == c.pick_attempts[target.id]
             popped == [c EXCEPT !.pick_queue = Tail(@)]
             \* current_frame is never cleared, and a target in the queue was
             \* put there by prepare_pick_queue, which wants a frame.
             coords == map_detection_to_mm(TRUE, target)
         IN IF attempts_exhausted(attempts)
            THEN pick_loop(popped)
            ELSE Then(arm_pick(popped, target, coords), LAMBDA a:
                    LET counted == [a EXCEPT !.pick_attempts[target.id] = attempts + 1] IN
                    IF a.ret
                    THEN {[counted EXCEPT !.current_target = <<target>>,
                                          !.waiting_for_arm = TRUE,
                                          !.ret = TRUE]}
                    ELSE pick_loop(counted))

command_next_pick(c) ==
    IF c.pick_queue = <<>> THEN {[c EXCEPT !.ret = FALSE]} ELSE pick_loop(c)

complete_current_pick(c) ==
    {[c EXCEPT !.current_target = <<>>, !.waiting_for_arm = FALSE]}

\* A faulty clear_pick_cycle that leaves the pick cycle as it is.
pick_cycle_kept(c) == {c}

clear_pick_cycle(c) ==
    {[c EXCEPT !.pick_queue = <<>>, !.current_target = <<>>, !.waiting_for_arm = FALSE]}

should_rotate_due_to_obstacle(c) ==
    IF c.latest_actor_status = <<>> THEN FALSE
    ELSE LET status == c.latest_actor_status[1] IN
         IF status.distance_cm = NoDistance THEN FALSE
         ELSE IF c.actor_motion = "TURNING" THEN FALSE
         ELSE status.distance_cm <= distance_stop_threshold_cm

\* A faulty ensure_actor_stopped that takes the stop for granted.
ensure_actor_stopped_optimistic(c) ==
    IF c.actor_motion = "STOPPED" THEN {[c EXCEPT !.ret = TRUE]}
    ELSE Then(actor_send_command(c, "STOP"), LAMBDA a:
            {[a EXCEPT !.actor_motion = "STOPPED"]})

ensure_actor_stopped(c) ==
    IF c.actor_motion = "STOPPED" THEN {[c EXCEPT !.ret = TRUE]}
    ELSE Then(actor_send_command(c, "STOP"), LAMBDA a:
            {IF a.ret THEN [a EXCEPT !.actor_motion = "STOPPED"] ELSE a})

\* A faulty command_move_forward that sends even when the motion is FORWARD.
command_move_forward_always(c) ==
    Then(actor_send_command(c, "MOVE_FORWARD"), LAMBDA a:
        {IF a.ret THEN [a EXCEPT !.actor_motion = "FORWARD"] ELSE a})

command_move_forward(c) ==
    IF c.actor_motion = "FORWARD" THEN {[c EXCEPT !.ret = TRUE]}
    ELSE Then(actor_send_command(c, "MOVE_FORWARD"), LAMBDA a:
            {IF a.ret THEN [a EXCEPT !.actor_motion = "FORWARD"] ELSE a})

\* A faulty command_turn: the inferred motion is set without sending TURN_90.
command_turn_unsent(c) == {[c EXCEPT !.actor_motion = "TURNING", !.ret = TRUE]}

command_turn(c) ==
    Then(actor_send_command(c, "TURN_90"), LAMBDA a:
        {IF a.ret THEN [a EXCEPT !.actor_motion = "TURNING"] ELSE a})

is_waiting_for_arm(c) == c.waiting_for_arm

current_pick_queue_empty(c) == c.pick_queue = <<>>

start_scan_only_timer(c) == schedule_once(c, "dispatch", "SCAN_ONLY_TIMEOUT")

\* A faulty exit action that cancels nothing.
cancel_timer_skipped(c) == {c}

cancel_scan_only_timer(c) == cancel(c, "dispatch", "SCAN_ONLY_TIMEOUT")

start_move_only_timer(c) == schedule_once(c, "dispatch", "MOVE_ONLY_COUNTDOWN")

cancel_move_only_timer(c) == cancel(c, "dispatch", "MOVE_ONLY_COUNTDOWN")

(***************************************************************************)
(* ControlStateMachine.                                                    *)
(***************************************************************************)
Transitions ==
    { [event |-> "start_patrol",         source |-> "Idle",        target |-> "ScanAndMove"],
      [event |-> "commence_pick",        source |-> "ScanAndMove", target |-> "PickUpEgg"],
      [event |-> "commence_pick",        source |-> "ScanOnly",    target |-> "PickUpEgg"],
      [event |-> "commence_pick",        source |-> "MoveOnly",    target |-> "PickUpEgg"],
      [event |-> "finish_picking",       source |-> "PickUpEgg",   target |-> "ScanAndMove"],
      [event |-> "start_first_turn",     source |-> "ScanAndMove", target |-> "TurnFirst"],
      [event |-> "first_turn_complete",  source |-> "TurnFirst",   target |-> "ScanOnly"],
      [event |-> "scan_timeout",         source |-> "ScanOnly",    target |-> "MoveOnly"],
      [event |-> "move_timer_elapsed",   source |-> "MoveOnly",    target |-> "TurnSecond"],
      [event |-> "second_turn_complete", source |-> "TurnSecond",  target |-> "ScanAndMove"] }

\* The target the library reports for an event with no transition from the
\* current state (it raises TransitionNotAllowed and leaves the state alone).
NotAllowed == "TransitionNotAllowed"

on_exit_pick_up_egg(c) == clear_pick_cycle(c)

on_exit_scan_only(c) == cancel_scan_only_timer(c)

on_exit_move_only(c) == cancel_move_only_timer(c)

on_exit(c) ==
    CASE c.state = "PickUpEgg" -> on_exit_pick_up_egg(c)
      [] c.state = "ScanOnly"  -> on_exit_scan_only(c)
      [] c.state = "MoveOnly"  -> on_exit_move_only(c)
      [] OTHER                 -> {c}

\* Firing an event up to the entry action: the library looks the transition up,
\* runs the source's exit action and sets the current state.  cycle_picks
\* (history) restarts with each entry into PickUpEgg.
begin_transition(c, event) ==
    LET matches == {tr \in Transitions : tr.event = event /\ tr.source = c.state} IN
    IF matches = {}
    THEN {[c EXCEPT !.halt = "raised",
                    !.ev_trans = Append(@, [event |-> event, source |-> c.state, target |-> NotAllowed])]}
    ELSE LET tr == CHOOSE m \in matches : TRUE IN
         Then(on_exit(c), LAMBDA x:
            {[x EXCEPT !.state = tr.target,
                       !.ev_trans = Append(@, tr),
                       !.cycle_picks = IF tr.target = "PickUpEgg"
                                       THEN [i \in DetectionIds |-> 0] ELSE @]})

on_enter_scan_only(c) ==
    Then(cancel_move_only_timer(c), LAMBDA a:
        Then(start_scan_only_timer(a), ensure_actor_stopped))

first_turn_complete(c) == Then(begin_transition(c, "first_turn_complete"), on_enter_scan_only)

on_enter_turn_first(c) ==
    Then(command_turn(c), LAMBDA a: IF ~a.ret THEN first_turn_complete(a) ELSE {a})

start_first_turn(c) == Then(begin_transition(c, "start_first_turn"), on_enter_turn_first)

\* A faulty entry action: it also starts the obstacle turn by itself.
on_enter_scan_and_move_turning(c) ==
    Then(cancel_scan_only_timer(c), LAMBDA a:
        Then(cancel_move_only_timer(a), LAMBDA b:
            Then(clear_pick_cycle(b), LAMBDA d:
                Then(command_move_forward(d), LAMBDA e:
                    IF should_rotate_due_to_obstacle(e) THEN start_first_turn(e) ELSE {e}))))

on_enter_scan_and_move(c) ==
    Then(cancel_scan_only_timer(c), LAMBDA a:
        Then(cancel_move_only_timer(a), LAMBDA b:
            Then(clear_pick_cycle(b), command_move_forward)))

on_enter_move_only(c) ==
    Then(start_move_only_timer(c), command_move_forward)

finish_picking(c) == Then(begin_transition(c, "finish_picking"), on_enter_scan_and_move)

second_turn_complete(c) == Then(begin_transition(c, "second_turn_complete"), on_enter_scan_and_move)

on_enter_pick_up_egg(c) ==
    Then(cancel_scan_only_timer(c), LAMBDA a:
        Then(cancel_move_only_timer(a), LAMBDA b:
            Then(prepare_pick_queue(b), LAMBDA p:
                IF ~p.ret THEN finish_picking(p)
                ELSE Then(command_next_pick(p), LAMBDA n:
                        IF ~n.ret THEN finish_picking(n) ELSE {n}))))

on_enter_turn_second(c) ==
    Then(command_turn(c), LAMBDA a: IF ~a.ret THEN second_turn_complete(a) ELSE {a})

start_patrol(c) == Then(begin_transition(c, "start_patrol"), on_enter_scan_and_move)

commence_pick(c) == Then(begin_transition(c, "commence_pick"), on_enter_pick_up_egg)

scan_timeout(c) == Then(begin_transition(c, "scan_timeout"), on_enter_move_only)

move_timer_elapsed(c) == Then(begin_transition(c, "move_timer_elapsed"), on_enter_turn_second)

\* A faulty handle_detection that goes on to commence_pick whatever the STOP
\* returned.
handle_detection_unacked(c, detections) ==
    Then(update_detections(c, detections), LAMBDA a:
        IF a.state = "PickUpEgg"
        THEN (IF detections = <<>> /\ ~is_waiting_for_arm(a)
              THEN finish_picking(a)
              ELSE refresh_pick_queue(a))
        ELSE IF ~has_pick_candidates(a) THEN {a}
        ELSE Then(ensure_actor_stopped(a), commence_pick))

handle_detection(c, detections) ==
    Then(update_detections(c, detections), LAMBDA a:
        IF a.state = "PickUpEgg"
        THEN (IF detections = <<>> /\ ~is_waiting_for_arm(a)
              THEN finish_picking(a)
              ELSE refresh_pick_queue(a))
        ELSE IF ~has_pick_candidates(a) THEN {a}
        ELSE Then(ensure_actor_stopped(a), LAMBDA b:
                IF ~b.ret THEN {b} ELSE commence_pick(b)))

handle_actor_status(c, status) ==
    Then(update_actor_status(c, status), LAMBDA a:
        IF a.state = "TurnFirst" /\ ~status.is_moving THEN first_turn_complete(a)
        ELSE IF a.state = "TurnSecond" /\ ~status.is_moving THEN second_turn_complete(a)
        ELSE IF a.state = "ScanAndMove" /\ should_rotate_due_to_obstacle(a)
        THEN Then(ensure_actor_stopped(a), LAMBDA b:
                IF ~b.ret THEN {b} ELSE start_first_turn(b))
        ELSE {a})

\* A faulty handle_arm_status that completes the pick and starts the next
\* one but stays in PickUpEgg when there is none.
handle_arm_status_unfinished(c, status) ==
    LET waiting_before == is_waiting_for_arm(c) IN
    Then(update_arm_status(c, status), LAMBDA a:
        IF a.state # "PickUpEgg" THEN {a}
        ELSE IF status.is_busy THEN {a}
        ELSE Then(IF waiting_before THEN complete_current_pick(a) ELSE {a}, command_next_pick))

handle_arm_status(c, status) ==
    LET waiting_before == is_waiting_for_arm(c) IN
    Then(update_arm_status(c, status), LAMBDA a:
        IF a.state # "PickUpEgg" THEN {a}
        ELSE IF status.is_busy THEN {a}
        ELSE Then(IF waiting_before THEN complete_current_pick(a) ELSE {a}, LAMBDA b:
                Then(command_next_pick(b), LAMBDA n:
                    IF n.ret THEN {n}
                    ELSE IF current_pick_queue_empty(n) /\ ~is_waiting_for_arm(n)
                    THEN finish_picking(n)
                    ELSE {n})))

handle_timer(c, timer_id) ==
    IF timer_id = "SCAN_ONLY_TIMEOUT" /\ c.state = "ScanOnly" THEN scan_timeout(c)
    ELSE IF timer_id = "MOVE_ONLY_COUNTDOWN" /\ c.state = "MoveOnly"
    THEN Then(ensure_actor_stopped(c), move_timer_elapsed)
    ELSE {c}

(***************************************************************************)
(* The FSM driven one event at a time (ControlEngine._dispatch_event runs  *)
(* each handler to its end on the dispatch thread before the next event).  *)
(***************************************************************************)
\* The program state as a record, at the start of an event's handling.
\* current_frame, current_detections and latest_arm_status are written at the
\* start of a handler and read by that handler alone, so they live in the
\* handler's record and are not carried from one event to the next.
Ctx ==
    [ state |-> state, current_frame |-> FALSE, current_detections |-> <<>>,
      latest_actor_status |-> latest_actor_status, latest_arm_status |-> <<>>,
      pick_queue |-> pick_queue, pick_attempts |-> pick_attempts,
      current_target |-> current_target, waiting_for_arm |-> waiting_for_arm,
      actor_motion |-> actor_motion,
      sched_tasks |-> sched_tasks, sched_lock |-> sched_lock,
      last_actor_cmd |-> last_actor_cmd, cycle_picks |-> cycle_picks,
      ev_cmds |-> <<>>, ev_trans |-> <<>>, ret |-> FALSE, halt |-> "run" ]

\* A faulty _dispatch_event without the try/except: an exception leaves the
\* loop and ends its thread.
dispatch_event_uncaught(halt) ==
    IF halt = "blocked" THEN "blocked"
    ELSE IF halt = "raised" THEN "dead"
    ELSE "run"

\* ControlEngine._dispatch_event: what becomes of the loop's thread when the
\* handler has ended as halt.  "except Exception" swallows whatever the
\* handler raised; a handler that never returns keeps the thread.
dispatch_event(halt) ==
    IF halt = "blocked" THEN "blocked" ELSE "run"

\* The state of the FSM and of the loop's thread after the handler ended in
\* record r.
CommitFsm(r) ==
    /\ state' = r.state
    /\ latest_actor_status' = r.latest_actor_status
    /\ pick_queue' = r.pick_queue
    /\ pick_attempts' = r.pick_attempts
    /\ current_target' = r.current_target
    /\ waiting_for_arm' = r.waiting_for_arm
    /\ actor_motion' = r.actor_motion
    /\ sched_tasks' = r.sched_tasks
    /\ sched_lock' = r.sched_lock
    /\ last_actor_cmd' = r.last_actor_cmd
    /\ cycle_picks' = r.cycle_picks
    /\ pick_refused' = (pick_refused \/ \E i \in 1 .. Len(r.ev_cmds) :
                            r.ev_cmds[i].dev = "arm" /\ r.ev_cmds[i].res # "ack")
    /\ ev_cmds' = r.ev_cmds
    /\ ev_trans' = r.ev_trans
    /\ ev_result' = r.halt
    /\ dispatch_thread' =
        IF dispatch_thread = "none" /\ r.halt = "raised" THEN "none"
        ELSE dispatch_event(r.halt)
    /\ UNCHANGED <<sched_pc, sched_op, busVars, codecVars, fanVars, portVars, lifeVars, linkVars>>

\* The state after the handler ended in record r, the event having been
\* handed to the handler directly.
Commit(r) == CommitFsm(r) /\ UNCHANGED engineVars

\* The dispatch loop is spawned once start_patrol has returned; a handler
\* that waits forever takes the loop's thread with it.
LoopRunning == dispatch_thread = "run"

StartPatrol ==
    /\ state = "Idle"
    /\ dispatch_thread = "none"
    /\ \E r \in start_patrol(Ctx) : Commit(r)

\* The loop dispatches a DetectionEvent carrying detections.
HandleDetectionOf(detections) ==
    /\ LoopRunning
    /\ \E r \in handle_detection(Ctx, detections) : Commit(r)

HandleDetection == \E detections \in DetectionLists : HandleDetectionOf(detections)

HandleActorStatus ==
    /\ LoopRunning
    /\ \E status \in ActorStatuses :
        \E r \in handle_actor_status(Ctx, status) : Commit(r)

\* The loop dispatches an ArmStatusEvent carrying status.
HandleArmStatusOf(status) ==
    /\ LoopRunning
    /\ \E r \in handle_arm_status(Ctx, status) : Commit(r)

HandleArmStatus == \E status \in ArmStatuses : HandleArmStatusOf(status)

HandleTimer ==
    /\ LoopRunning
    /\ \E timer_id \in TimerId \ {"ACTOR_STATUS", "ARM_STATUS"} :
        \E r \in handle_timer(Ctx, timer_id) : Commit(r)

InitFsm ==
    /\ state = "Idle"
    /\ latest_actor_status = <<>>
    /\ pick_queue = <<>>
    /\ pick_attempts = [i \in DetectionIds |-> 0]
    /\ current_target = <<>>
    /\ waiting_for_arm = FALSE
    /\ actor_motion = "STOPPED"
    /\ dispatch_thread = "none"
    /\ ev_result = "run"
    /\ ev_cmds = <<>>
    /\ ev_trans = <<>>
    /\ last_actor_cmd = "none"
    /\ cycle_picks = [i \in DetectionIds |-> 0]
    /\ pick_refused = FALSE

SchedThreads == {"dispatch", "main"}

InitSched ==
    /\ sched_tasks = {}
    /\ sched_lock = "free"
    /\ sched_pc = [t \in SchedThreads |-> "idle"]
    /\ sched_op = [t \in SchedThreads |-> [op |-> "none", timer_id |-> "none"]]

LinkThreads == {"actor", "arm"}

NoWait == [event |-> FALSE, result |-> <<>>]

InitBus ==
    /\ usage_count = 0
    /\ reader_thread = FALSE
    /\ serial_open = FALSE
    /\ pending_waits = <<>>
    /\ port_ok = TRUE
    /\ wire = <<>>
    /\ req_pc = [t \in LinkThreads |-> "idle"]
    /\ req_wait = [t \in LinkThreads |-> NoWait]
    /\ req_ret = [t \in LinkThreads |-> "none"]
    /\ listener_frame = <<>>
    /\ bus_call = "none"
    /\ link_started = [l \in LinkThreads |-> "new"]

InitEngine ==
    /\ ev_queue = <<>>
    /\ loop_pc = "none"
    /\ stop_event = FALSE
    /\ stop_requested = FALSE
    /\ dispatched = "none"

\* No frame is being encoded or decoded.
InitCodec ==
    /\ codec_payload = <<>>
    /\ codec_buffer = <<>>
    /\ codec_frames = <<>>
    /\ codec_pc = "idle"
    /\ codec_stream = <<>>
    /\ codec_entry = <<>>
    /\ codec_dispatched = <<>>
    /\ codec_length = 0
    /\ codec_passes = 0

\* The two links have registered their listeners, in the order they were
\* constructed; no frame is being dispatched.
InitFan ==
    /\ listeners = <<0, 1>>
    /\ next_listener_id = 2
    /\ fan_pc = "idle"
    /\ fan_frame = <<>>
    /\ fan_handled = FALSE
    /\ fan_snapshot = <<>>
    /\ fan_log = <<>>

\* The threads that use the port: the reader and one sender per link.
PortThreads == {"reader"} \cup LinkThreads

\* SharedSerialBus.__init__: no Serial object, no reader yet.
InitPort ==
    /\ serial_ref = 0
    /\ handle_open = [h \in 1 .. MaxHandles |-> FALSE]
    /\ handles_made = 0
    /\ port_pc = [t \in PortThreads |-> IF t = "reader" THEN "none" ELSE "idle"]
    /\ port_result = [t \in PortThreads |-> "none"]

\* SharedSerialBus.__init__: no stop Event, nobody in start() or stop().
InitLife ==
    /\ bus_stop_event = 0
    /\ event_set = [e \in 1 .. MaxEvents |-> FALSE]
    /\ events_made = 0
    /\ life_pc = [t \in LinkThreads |-> "idle"]
    /\ life_seen = [t \in LinkThreads |-> 0]

\* What a link call that has not returned has returned.
NoReturn == [kind |-> "none", seq |-> 0, ok |-> FALSE, frame |-> <<>>]

\* ActorLink.__init__ and ArmLink.__init__: no status cached, no call made.
InitLinks ==
    /\ link_call = [t \in LinkThreads |-> "none"]
    /\ link_seq = [t \in LinkThreads |-> 0]
    /\ link_ret = [t \in LinkThreads |-> NoReturn]
    /\ link_last_status = [t \in LinkThreads |-> <<>>]
    /\ dev_pending = {}

Init ==
    InitFsm /\ InitSched /\ InitBus /\ InitEngine /\ InitCodec /\ InitFan /\ InitPort /\ InitLife
        /\ InitLinks

(***************************************************************************)
(* The FSM driven by the engine's dispatch loop.                           *)
(***************************************************************************)
Next == StartPatrol \/ HandleDetection \/ HandleActorStatus \/ HandleArmStatus \/ HandleTimer

Spec == Init /\ [][Next]_vars

(***************************************************************************)
(* CommandScheduler called from several threads, one `with` at a time.     *)
(*   sched_pc[t]  "idle", "lock" (at the `with self._lock` of the call),   *)
(*                "body" (inside it, lock held), "blocked" (waits for      *)
(*                ever);                                                   *)
(*   sched_op[t]  the call in progress.                                    *)
(***************************************************************************)
SchedOps == {"start_interval", "schedule_once", "cancel"}

NoOp == [op |-> "none", timer_id |-> "none"]

SchedCtx == [sched_tasks |-> sched_tasks, sched_lock |-> sched_lock, halt |-> "run"]

\* A thread calls into the scheduler.
SchedCall(t) ==
    /\ sched_pc[t] = "idle"
    /\ \E op \in SchedOps, timer_id \in TimerId :
        sched_op' = [sched_op EXCEPT ![t] = [op |-> op, timer_id |-> timer_id]]
    /\ sched_pc' = [sched_pc EXCEPT ![t] = "lock"]
    /\ UNCHANGED <<fsmVars, busVars, engineVars, sched_tasks, sched_lock, codecVars, fanVars, portVars, lifeVars, linkVars>>

\* The thread gets the lock of the call's own `with`.
SchedLock(t) ==
    /\ sched_pc[t] = "lock"
    /\ \E r \in lock_acquire(SchedCtx, t) :
        /\ r.halt = "run"
        /\ sched_lock' = r.sched_lock
    /\ sched_pc' = [sched_pc EXCEPT ![t] = "body"]
    /\ UNCHANGED <<fsmVars, busVars, engineVars, sched_tasks, sched_op, codecVars, fanVars, portVars, lifeVars, linkVars>>

\* The thread runs the body of the `with`.
SchedBody(t) ==
    /\ sched_pc[t] = "body"
    /\ LET op == sched_op[t].op
           timer_id == sched_op[t].timer_id
       IN \E r \in (IF op = "cancel" THEN cancel_locked(SchedCtx, timer_id)
                    ELSE IF op = "schedule_once" THEN schedule_once_locked(SchedCtx, t, timer_id)
                    ELSE start_interval_locked(SchedCtx, t, timer_id)) :
            /\ sched_tasks' = r.sched_tasks
            /\ sched_lock' = r.sched_lock
            /\ sched_pc' = [sched_pc EXCEPT ![t] = IF r.halt = "blocked" THEN "blocked" ELSE "idle"]
            /\ sched_op' = [sched_op EXCEPT ![t] = IF r.halt = "blocked" THEN @ ELSE NoOp]
    /\ UNCHANGED <<fsmVars, busVars, engineVars, codecVars, fanVars, portVars, lifeVars, linkVars>>

NextSched == \E t \in SchedThreads : SchedCall(t) \/ SchedLock(t) \/ SchedBody(t)

SpecSched == Init /\ [][NextSched]_vars

(***************************************************************************)
(* SharedSerialBus with the two links' commands on it.  A command is       *)
(* bus.request with the ACK predicate; req_pc[t] is its position:          *)
(*   "idle", "send" (wait registered), "wait" (frame written, in           *)
(*   event.wait), "cancel" (event.wait timed out, _cancel_wait not yet     *)
(*   run).                                                                 *)
(***************************************************************************)
\* The predicate of _send_command and pick: group 0x04, first payload byte ACK.
ack_predicate(frame) == frame.group = GROUP_COMMAND /\ frame.first = ACK

\* What _send_command / pick make of what request returned.
link_result(ret, wait) ==
    IF ret = "raised" THEN "raise"
    ELSE IF ret = "absent" THEN "nack"
    ELSE IF ~wait.result[1].crc_ok THEN "nack"
    ELSE "ack"

\* A faulty removal that leaves the list as it is.
RemoveWaitNever(waits, t) == waits

\* self._pending_waits.remove(wait): the list without the wait of t.
RemoveWait(waits, t) == SelectSeq(waits, LAMBDA w : w # t)

\* A faulty guard: stop decrements whatever the count.
stop_is_noop_never(count) == FALSE

\* stop returns at once when nothing is started.
stop_is_noop(count) == count = 0

\* start launches the reader unless the count went above 1.
bus_start_launches(count) == ~(count > 1)

\* SharedSerialBus._ensure_serial: the port is open, or opens now if it can.
ensure_serial == serial_open \/ port_ok

\* The teardown that stop and shutdown share: reader joined, port closed,
\* buffer cleared.
Teardown ==
    /\ reader_thread' = FALSE
    /\ serial_open' = FALSE
    /\ wire' = <<>>

\* ActorLink.start / ArmLink.start: the link l calls SharedSerialBus.start.
BusStart(l) ==
    /\ usage_count < MaxUsage
    /\ usage_count' = usage_count + 1
    /\ IF bus_start_launches(usage_count')
       THEN reader_thread' = TRUE /\ serial_open' = ensure_serial
       ELSE UNCHANGED <<reader_thread, serial_open>>
    /\ bus_call' = "start"
    /\ link_started' = [link_started EXCEPT ![l] = "started"]
    /\ UNCHANGED <<pending_waits, port_ok, wire, req_pc, req_wait, req_ret, listener_frame>>
    /\ UNCHANGED <<fsmVars, schedVars, engineVars, codecVars, fanVars, portVars, lifeVars, linkVars>>

\* ActorLink.shutdown / ArmLink.shutdown: the link l calls SharedSerialBus.stop.
BusStop(l) ==
    /\ IF stop_is_noop(usage_count) THEN UNCHANGED <<usage_count, reader_thread, serial_open, wire>>
       ELSE /\ usage_count' = usage_count - 1
            /\ IF usage_count' > 0 THEN UNCHANGED <<reader_thread, serial_open, wire>>
               ELSE Teardown
    /\ bus_call' = "stop"
    /\ link_started' = [link_started EXCEPT ![l] = IF @ = "new" THEN "new" ELSE "shut"]
    /\ UNCHANGED <<pending_waits, port_ok, req_pc, req_wait, req_ret, listener_frame>>
    /\ UNCHANGED <<fsmVars, schedVars, engineVars, codecVars, fanVars, portVars, lifeVars, linkVars>>

\* SharedSerialBus.shutdown, called by main when the program ends: no link
\* uses the bus afterwards.
BusShutdown ==
    /\ usage_count' = 0
    /\ Teardown
    /\ bus_call' = "shutdown"
    /\ link_started' = [l \in LinkThreads |-> "new"]
    /\ UNCHANGED <<pending_waits, port_ok, req_pc, req_wait, req_ret, listener_frame>>
    /\ UNCHANGED <<fsmVars, schedVars, engineVars, codecVars, fanVars, portVars, lifeVars, linkVars>>

\* request, first line: _register_wait appends a fresh _PendingWait.
ReqRegister(t) ==
    /\ req_pc[t] = "idle"
    /\ req_wait' = [req_wait EXCEPT ![t] = NoWait]
    /\ req_ret' = [req_ret EXCEPT ![t] = "none"]
    /\ pending_waits' = Append(pending_waits, t)
    /\ req_pc' = [req_pc EXCEPT ![t] = "send"]
    /\ UNCHANGED <<usage_count, reader_thread, serial_open, port_ok, wire, listener_frame, bus_call, link_started>>
    /\ UNCHANGED <<fsmVars, schedVars, engineVars, codecVars, fanVars, portVars, lifeVars, linkVars>>

\* request, send_frame: open the port if needed and write; a port that
\* cannot be opened or written raises, the wait is cancelled and the
\* exception goes on to the caller.
ReqSend(t) ==
    /\ req_pc[t] = "send"
    /\ IF ensure_serial /\ port_ok
       THEN /\ serial_open' = TRUE
            /\ req_pc' = [req_pc EXCEPT ![t] = "wait"]
            /\ UNCHANGED <<pending_waits, req_ret>>
       ELSE /\ serial_open' = FALSE
            /\ pending_waits' = RemoveWait(pending_waits, t)
            /\ req_ret' = [req_ret EXCEPT ![t] = "raised"]
            /\ req_pc' = [req_pc EXCEPT ![t] = "idle"]
    /\ UNCHANGED <<usage_count, reader_thread, port_ok, wire, req_wait, listener_frame, bus_call, link_started>>
    /\ UNCHANGED <<fsmVars, schedVars, engineVars, codecVars, fanVars, portVars, lifeVars, linkVars>>

\* _wait_for: event.wait returned true, the result is returned.
ReqWake(t) ==
    /\ req_pc[t] = "wait"
    /\ req_wait[t].event
    /\ req_ret' = [req_ret EXCEPT ![t] = "frame"]
    /\ req_pc' = [req_pc EXCEPT ![t] = "idle"]
    /\ UNCHANGED <<usage_count, reader_thread, serial_open, pending_waits, port_ok, wire,
                   req_wait, listener_frame, bus_call, link_started>>
    /\ UNCHANGED <<fsmVars, schedVars, engineVars, codecVars, fanVars, portVars, lifeVars, linkVars>>

\* _wait_for: event.wait ran out with the event not set.
ReqTimeout(t) ==
    /\ req_pc[t] = "wait"
    /\ ~req_wait[t].event
    /\ req_pc' = [req_pc EXCEPT ![t] = "cancel"]
    /\ UNCHANGED <<usage_count, reader_thread, serial_open, pending_waits, port_ok, wire,
                   req_wait, req_ret, listener_frame, bus_call, link_started>>
    /\ UNCHANGED <<fsmVars, schedVars, engineVars, codecVars, fanVars, portVars, lifeVars, linkVars>>

\* _wait_for after the timeout: _cancel_wait, then return None.
ReqCancel(t) ==
    /\ req_pc[t] = "cancel"
    /\ pending_waits' = RemoveWait(pending_waits, t)
    /\ req_ret' = [req_ret EXCEPT ![t] = "absent"]
    /\ req_pc' = [req_pc EXCEPT ![t] = "idle"]
    /\ UNCHANGED <<usage_count, reader_thread, serial_open, port_ok, wire,
                   req_wait, listener_frame, bus_call, link_started>>
    /\ UNCHANGED <<fsmVars, schedVars, engineVars, codecVars, fanVars, portVars, lifeVars, linkVars>>

\* The first pending wait whose predicate takes the frame (0 when none does).
\* Every wait here is a command's, with the ACK predicate.
FirstMatch(waits, frame) ==
    IF waits # <<>> /\ ack_predicate(frame) THEN 1 ELSE 0

\* _dispatch_frame hands the frame to the listeners only when no wait took it.
dispatch_to_listeners(handled) == ~handled

\* One turn of _reader_loop: reopen a closed port, or read one frame and
\* run _dispatch_frame on it.
ReaderStep ==
    /\ reader_thread
    /\ IF ~serial_open
       THEN /\ serial_open' = ensure_serial
            /\ UNCHANGED <<wire, pending_waits, req_wait, listener_frame>>
       ELSE IF ~port_ok
       THEN /\ serial_open' = FALSE
            /\ UNCHANGED <<wire, pending_waits, req_wait, listener_frame>>
       ELSE /\ wire # <<>>
            /\ wire' = Tail(wire)
            /\ UNCHANGED serial_open
            /\ LET frame == Head(wire)
                   k == FirstMatch(pending_waits, frame)
               IN /\ IF k > 0
                     THEN /\ req_wait' = [req_wait EXCEPT ![pending_waits[k]] =
                                             [event |-> TRUE, result |-> <<frame>>]]
                          /\ pending_waits' = RemoveWait(pending_waits, pending_waits[k])
                     ELSE UNCHANGED <<req_wait, pending_waits>>
                  /\ IF dispatch_to_listeners(k > 0)
                     THEN listener_frame' = <<frame>>
                     ELSE UNCHANGED listener_frame
    /\ UNCHANGED <<usage_count, reader_thread, port_ok, req_pc, req_ret, bus_call, link_started>>
    /\ UNCHANGED <<fsmVars, schedVars, engineVars, codecVars, fanVars, portVars, lifeVars, linkVars>>

\* A device puts a frame on the wire.
DeviceSend ==
    /\ serial_open
    /\ Len(wire) < MaxWire
    /\ \E frame \in Frames : wire' = Append(wire, frame)
    /\ UNCHANGED <<usage_count, reader_thread, serial_open, pending_waits, port_ok,
                   req_pc, req_wait, req_ret, listener_frame, bus_call, link_started>>
    /\ UNCHANGED <<fsmVars, schedVars, engineVars, codecVars, fanVars, portVars, lifeVars, linkVars>>

\* The port goes away (cable pulled) or comes back.
PortChange ==
    /\ port_ok' = ~port_ok
    /\ UNCHANGED <<usage_count, reader_thread, serial_open, pending_waits, wire,
                   req_pc, req_wait, req_ret, listener_frame, bus_call, link_started>>
    /\ UNCHANGED <<fsmVars, schedVars, engineVars, codecVars, fanVars, portVars, lifeVars, linkVars>>

NextBus ==
    \/ \E l \in LinkThreads : BusStart(l) \/ BusStop(l)
    \/ BusShutdown
    \/ \E t \in LinkThreads : ReqRegister(t) \/ ReqSend(t) \/ ReqWake(t) \/ ReqTimeout(t) \/ ReqCancel(t)
    \/ ReaderStep \/ DeviceSend \/ PortChange

SpecBus == Init /\ [][NextBus]_vars

(***************************************************************************)
(* _dispatch_frame step by step: the frame is offered to the pending       *)
(* waits, and a frame no wait takes is handed to the listeners one call at *)
(* a time, while listeners are registered and unregistered and the actor's *)
(* link makes requests.                                                    *)
(***************************************************************************)
\* What a listener's callback does with a frame: it returns or it raises.
CallbackOutcomes == {"ok", "raise"}

\* A faulty loop over the listeners without the try/except: an exception
\* leaves _dispatch_frame and _reader_loop, and the reader thread ends.
after_callback_unguarded(outcome) == IF outcome = "raise" THEN "dead" ELSE "next"

\* The try/except around callback(frame): whatever the callback did, the
\* loop goes on to the next listener.
after_callback(outcome) == "next"

\* register_listener: the next id is issued and the callback is added after
\* the ones already registered.
RegisterListener ==
    /\ next_listener_id < MaxListenerIds
    /\ listeners' = Append(listeners, next_listener_id)
    /\ next_listener_id' = next_listener_id + 1
    /\ UNCHANGED <<fan_pc, fan_frame, fan_handled, fan_snapshot, fan_log>>
    /\ UNCHANGED <<fsmVars, schedVars, busVars, engineVars, codecVars, portVars, lifeVars, linkVars>>

\* unregister_listener(listener_id): the id is popped if it is registered.
UnregisterListener(listener_id) ==
    /\ listeners' = SelectSeq(listeners, LAMBDA id : id # listener_id)
    /\ UNCHANGED <<next_listener_id, fan_pc, fan_frame, fan_handled, fan_snapshot, fan_log>>
    /\ UNCHANGED <<fsmVars, schedVars, busVars, engineVars, codecVars, portVars, lifeVars, linkVars>>

\* _reader_loop hands a decoded frame to _dispatch_frame, which offers it
\* to the pending waits; if none takes it, the listeners registered now are
\* the ones it will call.
FanoutRead ==
    /\ reader_thread /\ serial_open
    /\ fan_pc = "idle"
    /\ wire # <<>>
    /\ wire' = Tail(wire)
    /\ LET frame == Head(wire)
           k == FirstMatch(pending_waits, frame)
       IN /\ IF k > 0
             THEN /\ req_wait' = [req_wait EXCEPT ![pending_waits[k]] =
                                     [event |-> TRUE, result |-> <<frame>>]]
                  /\ pending_waits' = RemoveWait(pending_waits, pending_waits[k])
             ELSE UNCHANGED <<req_wait, pending_waits>>
          /\ fan_handled' = (k > 0)
          /\ fan_snapshot' = IF dispatch_to_listeners(k > 0) THEN listeners ELSE <<>>
          /\ listener_frame' = IF dispatch_to_listeners(k > 0) THEN <<frame>> ELSE listener_frame
          /\ fan_frame' = <<frame>>
    /\ fan_log' = <<>>
    /\ fan_pc' = "deliver"
    /\ UNCHANGED <<listeners, next_listener_id>>
    /\ UNCHANGED <<usage_count, reader_thread, serial_open, port_ok, req_pc, req_ret,
                   bus_call, link_started>>
    /\ UNCHANGED <<fsmVars, schedVars, engineVars, codecVars, portVars, lifeVars, linkVars>>

\* _dispatch_frame calls the next listener with the frame.
ListenerCall ==
    /\ fan_pc = "deliver"
    /\ Len(fan_log) < Len(fan_snapshot)
    /\ \E outcome \in CallbackOutcomes :
          /\ fan_log' = Append(fan_log, [listener |-> fan_snapshot[Len(fan_log) + 1],
                                         frame |-> fan_frame[1], outcome |-> outcome])
          /\ IF after_callback(outcome) = "next"
             THEN UNCHANGED <<fan_pc, reader_thread>>
             ELSE fan_pc' = "dead" /\ reader_thread' = FALSE
    /\ UNCHANGED <<listeners, next_listener_id, fan_frame, fan_handled, fan_snapshot>>
    /\ UNCHANGED <<usage_count, serial_open, pending_waits, port_ok, wire, req_pc, req_wait,
                   req_ret, listener_frame, bus_call, link_started>>
    /\ UNCHANGED <<fsmVars, schedVars, engineVars, codecVars, portVars, lifeVars, linkVars>>

\* _dispatch_frame returns: every listener has been called, or a wait took
\* the frame.
FanoutEnd ==
    /\ fan_pc = "deliver"
    /\ Len(fan_log) = Len(fan_snapshot)
    /\ fan_pc' = "idle"
    /\ UNCHANGED <<listeners, next_listener_id, fan_frame, fan_handled, fan_snapshot, fan_log>>
    /\ UNCHANGED <<fsmVars, schedVars, busVars, engineVars, codecVars, portVars, lifeVars, linkVars>>

\* The steps of the actor's bus.request.
FanoutRequestStep ==
    \/ ReqRegister("actor") \/ ReqSend("actor") \/ ReqWake("actor")
    \/ ReqTimeout("actor") \/ ReqCancel("actor")

NextFanout ==
    \/ BusStart("actor")
    \/ FanoutRequestStep
    \/ DeviceSend
    \/ RegisterListener
    \/ \E listener_id \in 0 .. (MaxListenerIds - 1) : UnregisterListener(listener_id)
    \/ FanoutRead \/ ListenerCall \/ FanoutEnd

SpecFanout == Init /\ [][NextFanout]_vars

(***************************************************************************)
(* EventBus and the engine's loop.  The handlers the loop dispatches to    *)
(* are the actions of Spec; here an event is its kind.                     *)
(***************************************************************************)
EventKinds == {"Detection", "ActorStatus", "ArmStatus", "Timer"}

\* A faulty publish that makes room by discarding the oldest event.
publish_displacing(queue, event) ==
    IF Len(queue) < QueueMaxSize THEN Append(queue, event) ELSE Append(Tail(queue), event)

\* EventBus.publish: put_nowait, and an event that finds the queue full is dropped.
publish(queue, event) ==
    IF Len(queue) < QueueMaxSize THEN Append(queue, event) ELSE queue

\* ControlEngine.start spawns the loop's thread.
LoopStart ==
    /\ loop_pc = "none"
    /\ loop_pc' = "running"
    /\ UNCHANGED <<ev_queue, stop_event, stop_requested, dispatched>>
    /\ UNCHANGED <<fsmVars, schedVars, busVars, codecVars, fanVars, portVars, lifeVars, linkVars>>

\* A producer (camera, scheduler task, link) publishes an event.
Publish ==
    /\ \E kind \in EventKinds : ev_queue' = publish(ev_queue, kind)
    /\ UNCHANGED <<loop_pc, stop_event, stop_requested, dispatched>>
    /\ UNCHANGED <<fsmVars, schedVars, busVars, codecVars, fanVars, portVars, lifeVars, linkVars>>

\* EventBus.stop(reason).
EventBusStop ==
    /\ ev_queue' = publish(ev_queue, "Stop")
    /\ stop_requested' = TRUE
    /\ UNCHANGED <<loop_pc, stop_event, dispatched>>
    /\ UNCHANGED <<fsmVars, schedVars, busVars, codecVars, fanVars, portVars, lifeVars, linkVars>>

\* ControlEngine.stop: set the flag, then EventBus.stop.  (The scheduler
\* and link shutdowns that follow find nothing started in this
\* specification.)
EngineStop ==
    /\ stop_event' = TRUE
    /\ ev_queue' = publish(ev_queue, "Stop")
    /\ stop_requested' = TRUE
    /\ UNCHANGED <<loop_pc, dispatched>>
    /\ UNCHANGED <<fsmVars, schedVars, busVars, codecVars, fanVars, portVars, lifeVars, linkVars>>

\* One turn of ControlEngine._event_loop.
LoopIter ==
    /\ loop_pc = "running"
    /\ IF stop_event
       THEN loop_pc' = "exited" /\ UNCHANGED <<ev_queue, dispatched>>
       ELSE /\ ev_queue # <<>>
            /\ ev_queue' = Tail(ev_queue)
            /\ IF Head(ev_queue) = "Stop"
               THEN loop_pc' = "exited" /\ UNCHANGED dispatched
               ELSE dispatched' = Head(ev_queue) /\ UNCHANGED loop_pc
    /\ UNCHANGED <<stop_event, stop_requested>>
    /\ UNCHANGED <<fsmVars, schedVars, busVars, codecVars, fanVars, portVars, lifeVars, linkVars>>

NextEngine == LoopStart \/ Publish \/ EventBusStop \/ EngineStop \/ LoopIter

SpecEngine == Init /\ [][NextEngine]_vars

(***************************************************************************)
(* The context's motion commands carried out on the bus.  The dispatch     *)
(* thread calls ensure_actor_stopped, command_move_forward or command_turn; *)
(* the ActorLink turns the call into bus.request, whose steps are those of *)
(* SpecBus for the thread "actor"; when request has returned, the helper   *)
(* finishes with what the link made of it.                                 *)
(***************************************************************************)
ActorCommands == {"STOP", "MOVE_FORWARD", "TURN_90"}

\* The context helper that sends command.
motion_helper(command, c) ==
    CASE command = "STOP" -> ensure_actor_stopped(c)
      [] command = "MOVE_FORWARD" -> command_move_forward(c)
      [] command = "TURN_90" -> command_turn(c)

\* A helper is inside its link call: the command is noted, its outcome not yet.
CommandInProgress == last_actor_cmd # "none" /\ ev_cmds = <<>>

\* The helper is called and, unless the inferred motion makes it return at
\* once, gets as far as the first line of bus.request (_register_wait).
CommandCall(command) ==
    /\ ~CommandInProgress
    /\ req_pc["actor"] = "idle"
    /\ \A r \in motion_helper(command, Ctx) : r.ev_cmds # <<>>
    /\ last_actor_cmd' = command
    /\ ev_cmds' = <<>>
    /\ req_wait' = [req_wait EXCEPT !["actor"] = NoWait]
    /\ req_ret' = [req_ret EXCEPT !["actor"] = "none"]
    /\ pending_waits' = Append(pending_waits, "actor")
    /\ req_pc' = [req_pc EXCEPT !["actor"] = "send"]
    /\ UNCHANGED <<state, latest_actor_status, pick_queue, pick_attempts, current_target,
                   waiting_for_arm, actor_motion, dispatch_thread, ev_result, ev_trans, cycle_picks, pick_refused>>
    /\ UNCHANGED <<usage_count, reader_thread, serial_open, port_ok, wire, listener_frame,
                   bus_call, link_started>>
    /\ UNCHANGED <<schedVars, engineVars, codecVars, fanVars, portVars, lifeVars, linkVars>>

\* bus.request has returned (or raised): _send_command answers true, false
\* or lets the exception through, and the helper ends accordingly.
CommandReturn ==
    /\ CommandInProgress
    /\ req_pc["actor"] = "idle"
    /\ req_ret["actor"] # "none"
    /\ \E r \in motion_helper(last_actor_cmd, Ctx) :
          /\ r.ev_cmds[1].res = link_result(req_ret["actor"], req_wait["actor"])
          /\ actor_motion' = r.actor_motion
          /\ last_actor_cmd' = r.last_actor_cmd
          /\ ev_cmds' = r.ev_cmds
          /\ ev_result' = r.halt
    /\ UNCHANGED <<state, latest_actor_status, pick_queue, pick_attempts, current_target,
                   waiting_for_arm, dispatch_thread, ev_trans, cycle_picks, pick_refused>>
    /\ UNCHANGED <<schedVars, busVars, engineVars, codecVars, fanVars, portVars, lifeVars, linkVars>>

\* The steps of the actor's bus.request while a helper waits for it.
CommandRequestStep ==
    /\ CommandInProgress
    /\ \/ ReqSend("actor") \/ ReqWake("actor") \/ ReqTimeout("actor") \/ ReqCancel("actor")

NextCommand ==
    \/ BusStart("actor")
    \/ \E command \in ActorCommands : CommandCall(command)
    \/ CommandRequestStep
    \/ CommandReturn
    \/ ReaderStep \/ DeviceSend \/ PortChange

SpecCommand == Init /\ [][NextCommand]_vars

(***************************************************************************)
(* FrameCodec.  Buffers and payloads are sequences of bytes; the codec's   *)
(* 0-based indices are kept and turned into positions where a sequence is  *)
(* read.                                                                   *)
(***************************************************************************)
\* The byte values payloads are made of: the header and footer bytes, the two
\* groups, zero and 0xFF.
ByteValues == {0, GROUP_STATUS, GROUP_COMMAND, FOOTER_BYTE, HEADER_BYTE, ByteRange - 1}

\* The payloads encoded: every sequence of 1 .. MaxPayloadLen byte values,
\* and one byte repeated up to the longest length the length byte can
\* carry and one byte beyond it.
Payloads ==
    UNION { [1 .. n -> ByteValues] : n \in 1 .. MaxPayloadLen }
    \cup { [i \in 1 .. n |-> b] : n \in {ByteRange - 4, ByteRange - 3}, b \in ByteValues }

RECURSIVE compute_crc(_)
\* FrameCodec.compute_crc: the sum of the bytes, modulo 256 (added up by
\* halves, which gives the sum the code's loop gives).
compute_crc(data) ==
    IF data = <<>> THEN 0
    ELSE IF Len(data) = 1 THEN data[1] % ByteRange
    ELSE LET half == Len(data) \div 2 IN
         (compute_crc(SubSeq(data, 1, half)) + compute_crc(SubSeq(data, half + 1, Len(data))))
             % ByteRange

\* A faulty encode whose checksum leaves the length byte out.
encode_crc_without_length(payload, length) ==
    LET crc_source == <<HEADER_BYTE, HEADER_BYTE>> \o payload IN
    <<HEADER_BYTE, HEADER_BYTE, length % ByteRange>> \o payload
        \o <<compute_crc(crc_source)>> \o <<FOOTER_BYTE, FOOTER_BYTE>>

\* FrameCodec.encode(payload, length).
encode(payload, length) ==
    LET crc_source == <<HEADER_BYTE, HEADER_BYTE, length % ByteRange>> \o payload IN
    <<HEADER_BYTE, HEADER_BYTE, length % ByteRange>> \o payload
        \o <<compute_crc(crc_source)>> \o <<FOOTER_BYTE, FOOTER_BYTE>>

\* The length encode uses when none is given: payload + crc + footer.
default_length(payload) == Len(payload) + 3

\* The 0-based indices idx in from .. Len(buffer) - 2 where byte stands twice.
pair_indices(buffer, byte, from) ==
    {idx \in from .. (Len(buffer) - 2) : buffer[idx + 1] = byte /\ buffer[idx + 2] = byte}

\* FrameCodec._find_header: index of the first header, -1 if there is none.
find_header(buffer) ==
    LET found == pair_indices(buffer, HEADER_BYTE, 0) IN
    IF found = {} THEN -1 ELSE CHOOSE idx \in found : \A other \in found : idx <= other

\* FrameCodec._find_footer: index of the first footer at or after start.
find_footer(buffer, start) ==
    LET found == pair_indices(buffer, FOOTER_BYTE, start) IN
    IF found = {} THEN -1 ELSE CHOOSE idx \in found : \A other \in found : idx <= other

\* A faulty slice that starts one byte late.
slice_from_next(buffer, from) == SubSeq(buffer, from + 2, Len(buffer))

\* buffer[from:] of Python.
slice_from(buffer, from) == SubSeq(buffer, from + 1, Len(buffer))

\* A faulty `del buffer[0]` that leaves the byte where it is.
drop_byte_kept(buffer) == buffer

\* `del buffer[0]`: the buffer without its first byte.
drop_byte(buffer) == Tail(buffer)

\* One pass of the `while True` loop of extract_frames, from its top, with
\* the frames found so far: the frames and the buffer after the pass, and
\* whether the loop goes round again (`continue`, or the fall through after
\* a frame) or is left (`break`).
extract_iteration(frames, buffer0) ==
    IF Len(buffer0) < MIN_FRAME_SIZE
    THEN [frames |-> frames, buffer |-> buffer0, again |-> FALSE]
    ELSE
    LET header_index == find_header(buffer0) IN
    IF header_index < 0 THEN [frames |-> frames, buffer |-> <<>>, again |-> FALSE]
    ELSE
    LET buffer == IF header_index > 0 THEN slice_from(buffer0, header_index) ELSE buffer0 IN
    IF header_index > 0 /\ Len(buffer) < MIN_FRAME_SIZE
    THEN [frames |-> frames, buffer |-> buffer, again |-> FALSE]
    ELSE
    LET declared == buffer[3]
        total == 3 + declared
    IN
    IF total < MIN_FRAME_SIZE
    THEN [frames |-> frames, buffer |-> drop_byte(buffer), again |-> TRUE]
    ELSE IF Len(buffer) < total
    THEN [frames |-> frames, buffer |-> buffer, again |-> FALSE]
    ELSE
    LET footer_ok == buffer[total - 1] = FOOTER_BYTE /\ buffer[total] = FOOTER_BYTE
        tail_start == find_footer(buffer, 3)
    IN
    IF ~footer_ok /\ tail_start < 0
    THEN [frames |-> frames, buffer |-> buffer, again |-> FALSE]
    ELSE
    LET total_length == IF footer_ok THEN total ELSE tail_start + 2
        declared_length == IF footer_ok THEN declared ELSE total_length - 3
    IN
    IF Len(buffer) < total_length
    THEN [frames |-> frames, buffer |-> buffer, again |-> FALSE]
    ELSE
    LET frame_bytes == SubSeq(buffer, 1, total_length)
        crc_index == Len(frame_bytes) - 2 - 1
    IN
    IF crc_index <= 3
    THEN [frames |-> frames, buffer |-> drop_byte(buffer), again |-> TRUE]
    ELSE
    LET crc_byte == frame_bytes[crc_index + 1]
        computed_crc == compute_crc(SubSeq(frame_bytes, 1, crc_index))
        payload_bytes == SubSeq(frame_bytes, 4, crc_index)
        decoded == [ group |-> IF payload_bytes # <<>> THEN payload_bytes[1] ELSE 0,
                     payload |-> IF Len(payload_bytes) > 1 THEN Tail(payload_bytes) ELSE <<>>,
                     declared_length |-> declared_length,
                     crc_ok |-> (crc_byte = computed_crc) ]
    IN [frames |-> Append(frames, decoded), buffer |-> slice_from(buffer, total_length),
        again |-> TRUE]

RECURSIVE extract_loop(_, _)
\* The `while True` loop of extract_frames run to its `break`; the result is
\* what the function returns and what it leaves in the buffer.
extract_loop(frames, buffer0) ==
    LET pass == extract_iteration(frames, buffer0) IN
    IF pass.again THEN extract_loop(pass.frames, pass.buffer)
    ELSE [frames |-> pass.frames, buffer |-> pass.buffer]

\* FrameCodec.extract_frames.
extract_frames(buffer) == extract_loop(<<>>, buffer)

\* The payload to encode is any of Payloads; the rest of the program is as
\* constructed.
InitCodecRoundTrip ==
    /\ InitFsm /\ InitSched /\ InitBus /\ InitEngine /\ InitFan /\ InitPort /\ InitLife
    /\ InitLinks
    /\ codec_payload \in Payloads
    /\ codec_buffer = <<>>
    /\ codec_frames = <<>>
    /\ codec_pc = "idle"
    /\ codec_stream = <<>>
    /\ codec_entry = <<>>
    /\ codec_dispatched = <<>>
    /\ codec_length = 0
    /\ codec_passes = 0

\* The payload is encoded with the default length and the bytes are all the
\* receive buffer holds.
CodecEncode ==
    /\ codec_pc = "idle"
    /\ codec_buffer' = encode(codec_payload, default_length(codec_payload))
    /\ codec_pc' = "encoded"
    /\ UNCHANGED <<codec_payload, codec_frames>>
    /\ UNCHANGED <<codec_stream, codec_entry, codec_dispatched, codec_length, codec_passes>>
    /\ UNCHANGED <<fsmVars, schedVars, busVars, engineVars, fanVars, portVars, lifeVars, linkVars>>

\* extract_frames runs on the buffer.
CodecExtract ==
    /\ codec_pc = "encoded"
    /\ LET out == extract_frames(codec_buffer) IN
          /\ codec_frames' = out.frames
          /\ codec_buffer' = out.buffer
    /\ codec_pc' = "decoded"
    /\ UNCHANGED codec_payload
    /\ UNCHANGED <<codec_stream, codec_entry, codec_dispatched, codec_length, codec_passes>>
    /\ UNCHANGED <<fsmVars, schedVars, busVars, engineVars, fanVars, portVars, lifeVars, linkVars>>

NextCodec == CodecEncode \/ CodecExtract

SpecCodec == InitCodecRoundTrip /\ [][NextCodec]_vars

(***************************************************************************)
(* The bus reader feeding the codec: the bytes a device writes arrive in   *)
(* chunks, each chunk is appended to the receive buffer and extract_frames *)
(* runs on the buffer, one pass of its loop per step.                      *)
(***************************************************************************)
\* The bytes that stand before and after a written frame: the header and
\* footer bytes and a byte that is neither.
NoiseBytes == {0, FOOTER_BYTE, HEADER_BYTE}

\* Every run of at most MaxNoise of these bytes.
Noise == UNION { [1 .. n -> NoiseBytes] : n \in 0 .. MaxNoise }

\* The payloads written with the default length: an ACK, and an actor
\* status of a flag and a distance.
StreamPayloads == { <<GROUP_COMMAND, ACK>>, <<GROUP_STATUS, 0, 100>> }

\* The coordinates picks are built from: the extremes, a value whose two
\* bytes are the footer (0x2323), and a pair (0x00AE, 0x0023) whose low
\* byte and checksum are the footer.
CoordValues == {0, 35, 174, 8995, MaxCoord}

\* The high and the low byte of a 16-bit value: (v >> 8) & 0xFF, v & 0xFF.
high_low(v) == << (v \div ByteRange) % ByteRange, v % ByteRange >>

\* The payload build_arm_pick_command frames: the coordinates clamped to
\* 0 .. 0xFFFF, high byte first, after the command group.
arm_pick_payload(x_mm, y_mm) ==
    LET x == Max(0, Min(MaxCoord, x_mm))
        y == Max(0, Min(MaxCoord, y_mm))
    IN <<GROUP_COMMAND>> \o high_low(x) \o high_low(y)

\* protocol.build_arm_pick_command(x_mm, y_mm), for integer coordinates.
build_arm_pick_command(x_mm, y_mm) == encode(arm_pick_payload(x_mm, y_mm), ARM_FIXED_LENGTH)

\* protocol.build_arm_status_request().
build_arm_status_request == encode(<<GROUP_STATUS, ARM_READ_STATUS>>, ARM_FIXED_LENGTH)

\* An arm status frame as the arm's protocol frames it: a flag byte after
\* the group and the fixed length byte.
arm_status_frame(flag) == encode(<<GROUP_STATUS, flag>>, ARM_FIXED_LENGTH)

\* The receive buffer of the resync scenario: two stray bytes and an actor
\* status frame of flag 0 and distance 100 with length byte 5 and checksum
\* byte 0xB5.
ResyncBuffer == <<170, 187, HEADER_BYTE, HEADER_BYTE, 5, GROUP_STATUS, 0, 100, 181,
                  FOOTER_BYTE, FOOTER_BYTE>>

\* protocol.parse_actor_status(frame), for a frame of the status group.
parse_actor_status(frame) ==
    [ is_moving |-> (IF frame.payload # <<>> THEN frame.payload[1] ELSE 0) # 0,
      distance_cm |-> IF Len(frame.payload) > 1 THEN frame.payload[2] ELSE NoDistance ]

\* bytes with the byte at the 0-based index replaced.
corrupt(bytes, index, byte) == [bytes EXCEPT ![index + 1] = byte]

\* An ACK frame with one of its bytes replaced by a stray byte, alone or
\* followed by an intact ACK frame.
CorruptStreams ==
    LET frame == encode(<<GROUP_COMMAND, ACK>>, default_length(<<GROUP_COMMAND, ACK>>)) IN
    { corrupt(frame, index, byte) \o after :
        index \in 0 .. (Len(frame) - 1), byte \in NoiseBytes, after \in {<<>>, frame} }

\* What a device writes: a default-length frame among stray bytes, an arm
\* pick command, an arm status request or status frame, the bytes of the
\* resync scenario, or a corrupted stream.  The payload and the length byte
\* given to encode are kept with the bytes (none for the last two).
Written ==
    { [ payload |-> payload, length |-> default_length(payload),
        bytes |-> before \o encode(payload, default_length(payload)) \o after ] :
          payload \in StreamPayloads, before \in Noise, after \in Noise }
    \cup { [ payload |-> arm_pick_payload(x_mm, y_mm), length |-> ARM_FIXED_LENGTH,
             bytes |-> build_arm_pick_command(x_mm, y_mm) ] :
          x_mm \in CoordValues, y_mm \in CoordValues }
    \cup { [ payload |-> <<GROUP_STATUS, flag>>, length |-> ARM_FIXED_LENGTH,
             bytes |-> arm_status_frame(flag) \o after ] :
          flag \in {0, 1}, after \in {<<>>, build_arm_status_request} }
    \cup { [ payload |-> <<>>, length |-> 0, bytes |-> bytes ] :
             bytes \in {ResyncBuffer} \cup CorruptStreams }

\* Nothing has been read yet; the rest of the program is as constructed.
InitStream ==
    /\ InitFsm /\ InitSched /\ InitBus /\ InitEngine /\ InitFan /\ InitPort /\ InitLife
    /\ InitLinks
    /\ \E written \in Written :
          /\ codec_payload = written.payload
          /\ codec_length = written.length
          /\ codec_stream = written.bytes
    /\ codec_buffer = <<>>
    /\ codec_frames = <<>>
    /\ codec_entry = <<>>
    /\ codec_dispatched = <<>>
    /\ codec_passes = 0
    /\ codec_pc = "reading"

\* _reader_loop: a read returns some of the bytes on the line, the chunk is
\* appended to the buffer and extract_frames is entered.
ReaderRead ==
    /\ codec_pc = "reading"
    /\ \E n \in 1 .. Len(codec_stream) :
          /\ codec_buffer' = codec_buffer \o SubSeq(codec_stream, 1, n)
          /\ codec_stream' = slice_from(codec_stream, n)
    /\ codec_entry' = codec_buffer'
    /\ codec_frames' = <<>>
    /\ codec_passes' = 0
    /\ codec_pc' = "extracting"
    /\ UNCHANGED <<codec_payload, codec_dispatched, codec_length>>
    /\ UNCHANGED <<fsmVars, schedVars, busVars, engineVars, fanVars, portVars, lifeVars, linkVars>>

\* One pass of the loop of extract_frames, counted; the call returns when
\* the loop is left.
ExtractIteration ==
    /\ codec_pc = "extracting"
    /\ codec_passes < MaxPasses
    /\ codec_passes' = codec_passes + 1
    /\ LET pass == extract_iteration(codec_frames, codec_buffer) IN
          /\ codec_frames' = pass.frames
          /\ codec_buffer' = pass.buffer
          /\ codec_pc' = IF pass.again THEN "extracting" ELSE "returned"
    /\ UNCHANGED <<codec_payload, codec_stream, codec_entry, codec_dispatched, codec_length>>
    /\ UNCHANGED <<fsmVars, schedVars, busVars, engineVars, fanVars, portVars, lifeVars, linkVars>>

\* _reader_loop: the frames the call returned are dispatched and the reader
\* goes back to reading.
ReaderDispatch ==
    /\ codec_pc = "returned"
    /\ codec_dispatched' = codec_dispatched \o codec_frames
    /\ codec_pc' = "reading"
    /\ UNCHANGED <<codec_payload, codec_buffer, codec_frames, codec_stream, codec_entry,
                   codec_length, codec_passes>>
    /\ UNCHANGED <<fsmVars, schedVars, busVars, engineVars, fanVars, portVars, lifeVars, linkVars>>

NextStream == ReaderRead \/ ExtractIteration \/ ReaderDispatch

SpecStream == InitStream /\ [][NextStream]_vars

(***************************************************************************)
(* The port handle step by step.  _ensure_serial takes no lock: its test   *)
(* and its open are two steps of the calling thread, and the reader and    *)
(* the senders run them side by side.  port_pc[t] is                       *)
(*   "none" (reader not started), "idle" (sender between calls), "dead",   *)
(*   "start_check", "start_open" (_ensure_serial in _start_reader_thread), *)
(*   "check", "open" (_ensure_serial in _reader_loop or send_frame),       *)
(*   "read" (reader about to read), "write" (sender about to write).       *)
(***************************************************************************)

\* _close_serial: the Serial object self._serial names is closed if it is
\* open, and self._serial becomes None.
close_serial(ref, open) ==
    [serial_ref |-> 0,
     handle_open |-> IF ref # 0 /\ open[ref] THEN [open EXCEPT ![ref] = FALSE] ELSE open]

\* _ensure_serial, first line: true when self._serial is a Serial object
\* that is open.
serial_is_open(ref, open) == ref # 0 /\ open[ref]

\* _start_reader_thread: start() enters _ensure_serial before it launches
\* the reader.
StartReaderThread ==
    /\ port_pc["reader"] = "none"
    /\ port_pc' = [port_pc EXCEPT !["reader"] = "start_check"]
    /\ UNCHANGED <<serial_ref, handle_open, handles_made, port_result>>
    /\ UNCHANGED <<fsmVars, schedVars, busVars, engineVars, codecVars, fanVars, lifeVars, linkVars>>

\* send_frame is called on the thread of link t.
SendFrameCall(t) ==
    /\ port_pc[t] = "idle"
    /\ port_pc' = [port_pc EXCEPT ![t] = "check"]
    /\ port_result' = [port_result EXCEPT ![t] = "none"]
    /\ UNCHANGED <<serial_ref, handle_open, handles_made>>
    /\ UNCHANGED <<fsmVars, schedVars, busVars, engineVars, codecVars, fanVars, lifeVars, linkVars>>

\* Where thread t goes when the _ensure_serial it entered at pc `at` has
\* returned ok: _start_reader_thread launches the reader whatever it
\* returned; the reader reads or waits and tries again; send_frame writes
\* or raises.
ensure_returns(t, at, ok) ==
    IF at \in {"start_check", "start_open"} THEN "check"
    ELSE IF t = "reader" THEN (IF ok THEN "read" ELSE "check")
    ELSE (IF ok THEN "write" ELSE "idle")

\* _ensure_serial, the test `self._serial and self._serial.is_open`.
EnsureSerialCheck(t) ==
    /\ port_pc[t] \in {"check", "start_check"}
    /\ port_pc' = [port_pc EXCEPT ![t] =
                      IF serial_is_open(serial_ref, handle_open)
                      THEN ensure_returns(t, port_pc[t], TRUE)
                      ELSE IF port_pc[t] = "check" THEN "open" ELSE "start_open"]
    /\ UNCHANGED <<serial_ref, handle_open, handles_made, port_result>>
    /\ UNCHANGED <<fsmVars, schedVars, busVars, engineVars, codecVars, fanVars, lifeVars, linkVars>>

\* _ensure_serial, serial.Serial(...): a new Serial object is made, opened
\* and stored, or the open raises and self._serial becomes None.  Opening
\* a port that another Serial object of this process holds open succeeds
\* or raises, depending on the platform.
EnsureSerialOpen(t) ==
    /\ port_pc[t] \in {"open", "start_open"}
    /\ \E opened \in BOOLEAN :
          /\ opened => port_ok /\ handles_made < MaxHandles
          /\ ~opened => (~port_ok \/ \E h \in 1 .. MaxHandles : handle_open[h])
          /\ IF opened
             THEN /\ handles_made' = handles_made + 1
                  /\ handle_open' = [handle_open EXCEPT ![handles_made + 1] = TRUE]
                  /\ serial_ref' = handles_made + 1
             ELSE /\ serial_ref' = 0
                  /\ UNCHANGED <<handle_open, handles_made>>
          /\ port_pc' = [port_pc EXCEPT ![t] = ensure_returns(t, port_pc[t], opened)]
          /\ port_result' = [port_result EXCEPT ![t] =
                                IF ~opened /\ t # "reader" THEN "raised" ELSE @]
    /\ UNCHANGED <<fsmVars, schedVars, busVars, engineVars, codecVars, fanVars, lifeVars, linkVars>>

\* send_frame after _ensure_serial returned true: the assert, then the
\* write under the write mutex; a write that fails closes the port and
\* raises.  With self._serial None the assert (or the write) crashes.
SendFrameWrite(t) ==
    /\ port_pc[t] = "write"
    /\ port_pc' = [port_pc EXCEPT ![t] = "idle"]
    /\ IF serial_ref = 0
       THEN /\ port_result' = [port_result EXCEPT ![t] = "crashed"]
            /\ UNCHANGED <<serial_ref, handle_open>>
       ELSE IF ~handle_open[serial_ref] \/ ~port_ok
       THEN /\ port_result' = [port_result EXCEPT ![t] = "raised"]
            /\ handle_open' = close_serial(serial_ref, handle_open).handle_open
            /\ serial_ref' = close_serial(serial_ref, handle_open).serial_ref
       ELSE /\ port_result' = [port_result EXCEPT ![t] = "sent"]
            /\ UNCHANGED <<serial_ref, handle_open>>
    /\ UNCHANGED handles_made
    /\ UNCHANGED <<fsmVars, schedVars, busVars, engineVars, codecVars, fanVars, lifeVars, linkVars>>

\* _reader_loop after _ensure_serial returned true: the assert, then the
\* read; a read that fails closes the port and the loop goes round.  With
\* self._serial None the assert ends the reader thread.
ReaderLoopRead ==
    /\ port_pc["reader"] = "read"
    /\ IF serial_ref = 0
       THEN /\ port_pc' = [port_pc EXCEPT !["reader"] = "dead"]
            /\ port_result' = [port_result EXCEPT !["reader"] = "crashed"]
            /\ UNCHANGED <<serial_ref, handle_open>>
       ELSE IF ~handle_open[serial_ref] \/ ~port_ok
       THEN /\ port_pc' = [port_pc EXCEPT !["reader"] = "check"]
            /\ port_result' = [port_result EXCEPT !["reader"] = "raised"]
            /\ handle_open' = close_serial(serial_ref, handle_open).handle_open
            /\ serial_ref' = close_serial(serial_ref, handle_open).serial_ref
       ELSE /\ port_pc' = [port_pc EXCEPT !["reader"] = "check"]
            /\ port_result' = [port_result EXCEPT !["reader"] = "read"]
            /\ UNCHANGED <<serial_ref, handle_open>>
    /\ UNCHANGED handles_made
    /\ UNCHANGED <<fsmVars, schedVars, busVars, engineVars, codecVars, fanVars, lifeVars, linkVars>>

NextPort ==
    \/ StartReaderThread
    \/ \E t \in LinkThreads : SendFrameCall(t) \/ SendFrameWrite(t)
    \/ \E t \in PortThreads : EnsureSerialCheck(t) \/ EnsureSerialOpen(t)
    \/ ReaderLoopRead
    \/ PortChange

SpecPort == Init /\ [][NextPort]_vars

(***************************************************************************)
(* start() and stop() step by step.  stop() leaves the usage lock before   *)
(* it tears the reader down, so a start() can run between its steps.       *)
(* life_pc[t] is "idle", or where the stop() of thread t is in its         *)
(* teardown: "set" (about to set the stop Event), "join" (about to join    *)
(* and forget the reader), "clear" (about to forget the Event and close    *)
(* the port).  reader_thread tells whether self._reader_thread is set.     *)
(***************************************************************************)

\* The reader launched with Event e is running: it leaves its loop once e
\* is set.
ReaderAlive(e) == e \in 1 .. events_made /\ ~event_set[e]

\* start(), all of it under the usage lock: the count goes up, and the
\* first user makes a new stop Event and launches a reader on it.
LifeStart(t) ==
    /\ life_pc[t] = "idle"
    /\ usage_count < MaxUsage
    /\ usage_count' = usage_count + 1
    /\ IF bus_start_launches(usage_count')
       THEN /\ events_made < MaxEvents
            /\ events_made' = events_made + 1
            /\ bus_stop_event' = events_made + 1
            /\ reader_thread' = TRUE
            /\ serial_open' = ensure_serial
       ELSE UNCHANGED <<events_made, bus_stop_event, reader_thread, serial_open>>
    /\ UNCHANGED <<event_set, life_pc, life_seen>>
    /\ UNCHANGED <<pending_waits, port_ok, wire, req_pc, req_wait, req_ret, listener_frame,
                   bus_call, link_started>>
    /\ UNCHANGED <<fsmVars, schedVars, engineVars, codecVars, fanVars, portVars, linkVars>>

\* stop(), the part under the usage lock: nothing when the count is 0,
\* else the count goes down and the last user goes on to the teardown.
LifeStop(t) ==
    /\ life_pc[t] = "idle"
    /\ IF stop_is_noop(usage_count) THEN UNCHANGED <<usage_count, life_pc, life_seen>>
       ELSE /\ usage_count' = usage_count - 1
            /\ IF usage_count' > 0 THEN UNCHANGED <<life_pc, life_seen>>
               ELSE /\ life_pc' = [life_pc EXCEPT ![t] = "set"]
                    /\ life_seen' = [life_seen EXCEPT ![t] = bus_stop_event]
    /\ UNCHANGED <<bus_stop_event, event_set, events_made>>
    /\ UNCHANGED <<reader_thread, serial_open, pending_waits, port_ok, wire, req_pc, req_wait,
                   req_ret, listener_frame, bus_call, link_started>>
    /\ UNCHANGED <<fsmVars, schedVars, engineVars, codecVars, fanVars, portVars, linkVars>>

\* stop(), `if self._stop_event: self._stop_event.set()`.
TeardownSet(t) ==
    /\ life_pc[t] = "set"
    /\ event_set' = IF bus_stop_event # 0 THEN [event_set EXCEPT ![bus_stop_event] = TRUE]
                    ELSE event_set
    /\ life_pc' = [life_pc EXCEPT ![t] = "join"]
    /\ UNCHANGED <<bus_stop_event, events_made, life_seen>>
    /\ UNCHANGED <<busVars, fsmVars, schedVars, engineVars, codecVars, fanVars, portVars, linkVars>>

\* stop(), the join of the reader (2 s at most) and
\* `self._reader_thread = None`.
TeardownJoin(t) ==
    /\ life_pc[t] = "join"
    /\ reader_thread' = FALSE
    /\ life_pc' = [life_pc EXCEPT ![t] = "clear"]
    /\ UNCHANGED <<bus_stop_event, event_set, events_made, life_seen>>
    /\ UNCHANGED <<usage_count, serial_open, pending_waits, port_ok, wire, req_pc, req_wait,
                   req_ret, listener_frame, bus_call, link_started>>
    /\ UNCHANGED <<fsmVars, schedVars, engineVars, codecVars, fanVars, portVars, linkVars>>

\* stop(), `self._stop_event = None`, _close_serial and the buffer cleared.
TeardownClear(t) ==
    /\ life_pc[t] = "clear"
    /\ bus_stop_event' = 0
    /\ serial_open' = FALSE
    /\ wire' = <<>>
    /\ life_pc' = [life_pc EXCEPT ![t] = "idle"]
    /\ UNCHANGED <<event_set, events_made, life_seen>>
    /\ UNCHANGED <<usage_count, reader_thread, pending_waits, port_ok, req_pc, req_wait,
                   req_ret, listener_frame, bus_call, link_started>>
    /\ UNCHANGED <<fsmVars, schedVars, engineVars, codecVars, fanVars, portVars, linkVars>>

NextLife ==
    \E t \in LinkThreads :
        LifeStart(t) \/ LifeStop(t) \/ TeardownSet(t) \/ TeardownJoin(t) \/ TeardownClear(t)

SpecLife == Init /\ [][NextLife]_vars

(***************************************************************************)
(* ActorLink and ArmLink on one SharedSerialBus.  A call of a link is a    *)
(* command (_send_command, pick) or read_status; either is bus.request     *)
(* with the link's predicate, whose steps after the wait is registered are *)
(* those of SpecBus.  The calls are made by the engine's dispatch thread,  *)
(* one at a time.  Each device answers a request it has received at most   *)
(* once, at any later time.  A frame on the wire carries, besides what the *)
(* codec decodes, the device that sent it and the call it answers; the     *)
(* program sees neither.                                                   *)
(***************************************************************************)
CallKinds == {"command", "status"}

\* The predicate ActorLink.read_status and ArmLink.read_status wait with:
\* ACTOR_GROUP_STATUS and ARM_GROUP_STATUS are both 0x03.
status_predicate(frame) == frame.group = GROUP_STATUS

\* The predicate the call in progress on link t waits with; the ACK
\* predicates of the two links are the same test.
wait_predicate(kind, frame) ==
    IF kind = "status" THEN status_predicate(frame) ELSE ack_predicate(frame)

\* The frame device dev sends in answer to its call number seq.
answer_frame(dev, kind, seq) ==
    [group |-> IF kind = "status" THEN GROUP_STATUS ELSE GROUP_COMMAND,
     first |-> IF kind = "status" THEN 0 ELSE ACK,
     crc_ok |-> TRUE, dev |-> dev, seq |-> seq]

\* The first pending wait whose predicate takes the frame (0 when none does).
FirstTaker(waits, calls, frame) ==
    LET takers == {i \in 1 .. Len(waits) : wait_predicate(calls[waits[i]], frame)} IN
    IF takers = {} THEN 0 ELSE CHOOSE i \in takers : \A j \in takers : i <= j

\* ActorLink._handle_frame / ArmLink._handle_frame: a listener keeps a
\* status frame with a valid checksum as its link's last status.
handle_frame(last, frame) ==
    IF frame.group = GROUP_STATUS /\ frame.crc_ok THEN <<frame>> ELSE last

\* A link call begins, no other being in progress: bus.request registers
\* its wait.
LinkCall(t, kind) ==
    /\ \A u \in LinkThreads : link_call[u] = "none"
    /\ req_pc[t] = "idle"
    /\ link_seq[t] < MaxCalls
    /\ link_call' = [link_call EXCEPT ![t] = kind]
    /\ link_seq' = [link_seq EXCEPT ![t] = @ + 1]
    /\ link_ret' = [link_ret EXCEPT ![t] = NoReturn]
    /\ req_wait' = [req_wait EXCEPT ![t] = NoWait]
    /\ req_ret' = [req_ret EXCEPT ![t] = "none"]
    /\ pending_waits' = Append(pending_waits, t)
    /\ req_pc' = [req_pc EXCEPT ![t] = "send"]
    /\ UNCHANGED <<link_last_status, dev_pending>>
    /\ UNCHANGED <<usage_count, reader_thread, serial_open, port_ok, wire, listener_frame,
                   bus_call, link_started>>
    /\ UNCHANGED <<fsmVars, schedVars, engineVars, codecVars, fanVars, portVars, lifeVars>>

\* request, send_frame: the frame is written and its device has it.
LinkSend(t) ==
    /\ req_pc[t] = "send"
    /\ link_call[t] # "none"
    /\ ensure_serial /\ port_ok
    /\ serial_open' = TRUE
    /\ req_pc' = [req_pc EXCEPT ![t] = "wait"]
    /\ dev_pending' = dev_pending \cup {[dev |-> t, kind |-> link_call[t], seq |-> link_seq[t]]}
    /\ UNCHANGED <<link_call, link_seq, link_ret, link_last_status>>
    /\ UNCHANGED <<usage_count, reader_thread, pending_waits, port_ok, wire, req_wait, req_ret,
                   listener_frame, bus_call, link_started>>
    /\ UNCHANGED <<fsmVars, schedVars, engineVars, codecVars, fanVars, portVars, lifeVars>>

\* A device answers one of the requests it has received.
DeviceAnswer ==
    /\ Len(wire) < MaxWire
    /\ \E r \in dev_pending :
          /\ wire' = Append(wire, answer_frame(r.dev, r.kind, r.seq))
          /\ dev_pending' = dev_pending \ {r}
    /\ UNCHANGED <<link_call, link_seq, link_ret, link_last_status>>
    /\ UNCHANGED <<usage_count, reader_thread, serial_open, pending_waits, port_ok,
                   req_pc, req_wait, req_ret, listener_frame, bus_call, link_started>>
    /\ UNCHANGED <<fsmVars, schedVars, engineVars, codecVars, fanVars, portVars, lifeVars>>

\* One turn of _reader_loop with a frame read: _dispatch_frame gives it to
\* the first pending wait whose predicate takes it, else to the listeners
\* of both links.
LinkReaderStep ==
    /\ reader_thread
    /\ wire # <<>>
    /\ wire' = Tail(wire)
    /\ LET frame == Head(wire)
           k == FirstTaker(pending_waits, link_call, frame)
       IN /\ IF k > 0
             THEN /\ req_wait' = [req_wait EXCEPT ![pending_waits[k]] =
                                     [event |-> TRUE, result |-> <<frame>>]]
                  /\ pending_waits' = RemoveWait(pending_waits, pending_waits[k])
             ELSE UNCHANGED <<req_wait, pending_waits>>
          /\ IF dispatch_to_listeners(k > 0)
             THEN /\ listener_frame' = <<frame>>
                  /\ link_last_status' =
                        [l \in LinkThreads |-> handle_frame(link_last_status[l], frame)]
             ELSE UNCHANGED <<listener_frame, link_last_status>>
    /\ UNCHANGED <<link_call, link_seq, link_ret, dev_pending>>
    /\ UNCHANGED <<usage_count, reader_thread, serial_open, port_ok, req_pc, req_ret,
                   bus_call, link_started>>
    /\ UNCHANGED <<fsmVars, schedVars, engineVars, codecVars, fanVars, portVars, lifeVars>>

\* request has returned: a command returns true for a frame with a valid
\* checksum; read_status parses such a frame, caches the status and returns
\* it.
LinkReturn(t) ==
    /\ link_call[t] # "none"
    /\ req_pc[t] = "idle"
    /\ req_ret[t] \in {"frame", "absent"}
    /\ LET got == req_ret[t] = "frame" /\ req_wait[t].result[1].crc_ok IN
          /\ link_ret' = [link_ret EXCEPT ![t] =
                             [kind |-> link_call[t], seq |-> link_seq[t], ok |-> got,
                              frame |-> IF got THEN req_wait[t].result ELSE <<>>]]
          /\ link_last_status' =
                IF got /\ link_call[t] = "status"
                THEN [link_last_status EXCEPT ![t] = req_wait[t].result]
                ELSE link_last_status
    /\ link_call' = [link_call EXCEPT ![t] = "none"]
    /\ req_ret' = [req_ret EXCEPT ![t] = "none"]
    /\ UNCHANGED <<link_seq, dev_pending>>
    /\ UNCHANGED <<usage_count, reader_thread, serial_open, pending_waits, port_ok, wire,
                   req_pc, req_wait, listener_frame, bus_call, link_started>>
    /\ UNCHANGED <<fsmVars, schedVars, engineVars, codecVars, fanVars, portVars, lifeVars>>

NextLinks ==
    \/ \E l \in LinkThreads : BusStart(l)
    \/ \E t \in LinkThreads, kind \in CallKinds : LinkCall(t, kind)
    \/ \E t \in LinkThreads :
          LinkSend(t) \/ ReqWake(t) \/ ReqTimeout(t) \/ ReqCancel(t) \/ LinkReturn(t)
    \/ DeviceAnswer
    \/ LinkReaderStep

SpecLinks == Init /\ [][NextLinks]_vars

(***************************************************************************)
(* Properties of the FSM (specification Spec).                             *)
(***************************************************************************)
\* The actor status the context holds reports an obstacle within the stop distance.
ObstacleNear ==
    /\ latest_actor_status # <<>>
    /\ latest_actor_status[1].distance_cm # NoDistance
    /\ latest_actor_status[1].distance_cm <= distance_stop_threshold_cm

\* The commands the last event sent to the actor.
IssuedToActor(command) ==
    \E i \in 1 .. Len(ev_cmds) : ev_cmds[i].dev = "actor" /\ ev_cmds[i].cmd = command

\* The transitions the last event fired (the refused ones left out).
FiredTransitions == SelectSeq(ev_trans, LAMBDA tr : tr.target # NotAllowed)

\* C1 (obstacle safety): no event sends MOVE_FORWARD to the actor while the
\* latest actor status held by the context reports a distance that is present
\* and <= distance_stop_threshold_cm.  (The status is replaced only at the
\* start of handle_actor_status, so the one held after the event is the one
\* held when the command was sent.)
C1_ObstacleSafety == IssuedToActor("MOVE_FORWARD") => ~ObstacleNear

\* C2 (pick attempt bound): within one PickUpEgg cycle arm.pick is called at
\* most max_arm_pick_attempts times for any target id.
C2_PickAttemptBound == \A i \in DetectionIds : cycle_picks[i] <= max_arm_pick_attempts

\* C3 (motion invariant): whenever the FSM rests in TurnFirst or TurnSecond,
\* the last command sent to the actor was TURN_90 or STOP.
C3_MotionInvariant ==
    state \in {"TurnFirst", "TurnSecond"} => last_actor_cmd \in {"TURN_90", "STOP"}

\* C3 witness: the FSM rests in TurnFirst after start_first_turn sent TURN_90.
C3_Witness ==
    /\ state = "TurnFirst"
    /\ last_actor_cmd = "TURN_90"
    /\ ev_trans # <<>>
    /\ ev_trans[Len(ev_trans)].event = "start_first_turn"

\* C4 (no invalid transition): no handler fires an event that has no
\* transition from the current state.
C4_NoInvalidTransition == \A i \in 1 .. Len(ev_trans) : ev_trans[i].target # NotAllowed

\* C5 as stated (one transition per event): the handling of one event fires
\* at most one transition.
C5_AtMostOneTransition == Len(FiredTransitions) <= 1

\* C5 as amended: the handling of one event fires at most two transitions, the
\* one the handler selects and at most one follow-up fired by the entry action
\* of the state just entered (finish_picking out of PickUpEgg,
\* first_turn_complete out of TurnFirst, second_turn_complete out of TurnSecond).
C5_AtMostTwoTransitions ==
    /\ Len(FiredTransitions) <= 2
    /\ Len(FiredTransitions) = 2 =>
        /\ FiredTransitions[2].source = FiredTransitions[1].target
        /\ FiredTransitions[2].event \in {"finish_picking", "first_turn_complete", "second_turn_complete"}
        /\ FiredTransitions[1].event \in {"commence_pick", "start_first_turn", "move_timer_elapsed"}

\* C5 witness: an event whose entry action fired the follow-up transition.
C5_Witness ==
    /\ Len(FiredTransitions) = 2
    /\ FiredTransitions[1].event = "commence_pick"
    /\ FiredTransitions[2].event = "finish_picking"
    /\ state = "ScanAndMove"

(***************************************************************************)
(* Properties of the scheduler (specification SpecSched).                  *)
(***************************************************************************)
\* C8 (scheduler calls return): no call of start_interval, schedule_once or
\* cancel ends up waiting for ever on the scheduler's lock.
C8_NeverBlockedOnLock == \A t \in SchedThreads : sched_pc[t] # "blocked"

(***************************************************************************)
(* Properties of the serial bus (specification SpecBus).                   *)
(***************************************************************************)
\* C6 (request delivers or the frame is broadcast): a request that returned
\* a frame returned one its predicate accepts, and a request that returned
\* absent did not have a frame consumed by its wait.
C6_NoFrameLost ==
    \A t \in LinkThreads :
        /\ req_ret[t] = "frame" =>
            req_wait[t].result # <<>> /\ ack_predicate(req_wait[t].result[1])
        /\ req_ret[t] = "absent" => req_wait[t].result = <<>>

\* C7 (link commands never throw): a link command that has returned gave
\* true exactly for an ACK with a valid checksum, false otherwise, and did
\* not raise.
C7_LinkCommandNeverThrows ==
    \A t \in LinkThreads :
        req_ret[t] # "none" =>
            /\ link_result(req_ret[t], req_wait[t]) # "raise"
            /\ link_result(req_ret[t], req_wait[t]) = "ack" <=>
                (req_ret[t] = "frame" /\ req_wait[t].result[1].crc_ok)

\* C10 (bus reference counting): the usage count is never negative and the
\* reader runs iff it is > 0; a step launches the reader only when the count
\* goes 0 to 1, and tears it down only when the count becomes 0; stop at 0
\* changes neither; after shutdown the count is 0 and the reader is gone.
C10_RefCounting ==
    /\ [](usage_count >= 0 /\ (reader_thread <=> usage_count > 0))
    /\ [](bus_call = "shutdown" => usage_count = 0 /\ ~reader_thread)
    /\ [][ /\ (~reader_thread /\ reader_thread') => (usage_count = 0 /\ usage_count' = 1 /\ bus_call' = "start")
           /\ (reader_thread /\ ~reader_thread') =>
                /\ usage_count' = 0
                /\ bus_call' \in {"stop", "shutdown"}
                /\ bus_call' = "stop" => usage_count = 1
           /\ (bus_call' = "stop" /\ usage_count = 0) => UNCHANGED <<usage_count, reader_thread>> ]_vars

\* C10 witness: a stop that brought the count from 1 to 0 took the reader down
\* while a command was waiting on the bus.
C10_Witness ==
    /\ bus_call = "stop"
    /\ usage_count = 0
    /\ ~reader_thread
    /\ \E t \in LinkThreads : req_pc[t] = "wait"

(***************************************************************************)
(* Properties of the event bus and the engine loop (specification          *)
(* SpecEngine).                                                            *)
(***************************************************************************)
\* C9 (stop reaches the loop): once event_bus.stop has been called, a Stop
\* event is in the queue until the loop has exited.
C9_StopEnqueued ==
    stop_requested =>
        \/ loop_pc = "exited"
        \/ \E i \in 1 .. Len(ev_queue) : ev_queue[i] = "Stop"

\* C11 (bad checksum never correlates): no pending wait is given a frame whose
\* crc_ok is false as its result.
C11_BadCrcNeverCorrelated ==
    \A t \in LinkThreads :
        req_wait[t].result # <<>> => req_wait[t].result[1].crc_ok

\* C12 (link start and shutdown idempotent): a shutdown() of a link whose
\* last lifecycle call was already shutdown() changes nothing on the bus; in
\* particular it does not stop the reader while the other link is started.
C12_RepeatedShutdownIsNoop ==
    [][\A l \in LinkThreads :
          (BusStop(l) /\ link_started[l] = "shut")
              => UNCHANGED <<usage_count, reader_thread, serial_open>>]_vars

\* C13 (bounded, non-blocking, drop-newest, FIFO event bus): the queue never
\* holds more than its capacity; a publish is always possible; every step
\* leaves the queue as it was (which is all a publish on a full queue does),
\* appends one event at the back while there is room, or removes the event at
\* the front.
C13_BoundedFifoDropNewest ==
    /\ [](Len(ev_queue) <= QueueMaxSize)
    /\ [](ENABLED Publish)
    /\ [][ \/ ev_queue' = ev_queue
           \/ /\ Len(ev_queue) < QueueMaxSize
              /\ \E e \in EventKinds \cup {"Stop"} : ev_queue' = Append(ev_queue, e)
           \/ /\ ev_queue # <<>>
              /\ ev_queue' = Tail(ev_queue) ]_vars

\* C13 witness: the queue is full of events other than Stop, the loop has not
\* been started and stop has been called: the Stop event was published on the
\* full queue and dropped.
C13_Witness ==
    /\ Len(ev_queue) = QueueMaxSize
    /\ loop_pc = "none"
    /\ stop_requested
    /\ \A i \in 1 .. Len(ev_queue) : ev_queue[i] # "Stop"

(***************************************************************************)
(* Further properties of the FSM and the dispatch loop (specification      *)
(* Spec).                                                                  *)
(***************************************************************************)
\* C14 (the engine never aborts): when the handling of a dispatched event has
\* raised, the loop's thread is still running and can dispatch a further
\* event of every kind.
C14_LoopSurvivesException ==
    (dispatch_thread # "none" /\ ev_result = "raised") =>
        /\ LoopRunning
        /\ ENABLED HandleDetection
        /\ ENABLED HandleActorStatus
        /\ ENABLED HandleArmStatus
        /\ ENABLED HandleTimer

\* C14 witness: a handler has raised (a transition that is not allowed, or a
\* link call) and the loop is running.
C14_Witness ==
    /\ LoopRunning
    /\ ev_result = "raised"
    /\ state # "Idle"

\* C15 (reachability; Stop from every state): once the loop has been started,
\* in whatever state the FSM is, the loop's thread is there to pull a Stop
\* event and end.
C15_StopProcessableEverywhere ==
    dispatch_thread # "none" => LoopRunning

\* The commands of the last event, in order, as device/command pairs.
CommandsIssued == [i \in 1 .. Len(ev_cmds) |-> <<ev_cmds[i].dev, ev_cmds[i].cmd>>]

\* Every link command of the last event was acknowledged.
AllAcked == \A i \in 1 .. Len(ev_cmds) : ev_cmds[i].res = "ack"

\* C16 (obstacle turn sequence), its first two steps: an actor status with
\* is_moving = true and an obstacle within the threshold, which makes the
\* moving FSM leave ScanAndMove by start_first_turn, sends STOP then
\* TURN_90 and rests in TurnFirst; the next actor status with is_moving =
\* false, received while turning in TurnFirst, moves the FSM to ScanOnly and
\* sends STOP to the actor (link commands acknowledged).
C16_ObstacleTurnSequence ==
    [][ /\ ( /\ state = "ScanAndMove" /\ actor_motion = "FORWARD"
             /\ ev_trans' # <<>> /\ ev_trans'[1].event = "start_first_turn"
             /\ latest_actor_status'[1].is_moving
             /\ AllAcked' )
           => /\ state' = "TurnFirst"
              /\ CommandsIssued' = << <<"actor", "STOP">>, <<"actor", "TURN_90">> >>
        /\ ( /\ state = "TurnFirst" /\ actor_motion = "TURNING"
             /\ ev_trans' # <<>> /\ ev_trans'[1].event = "first_turn_complete"
             /\ AllAcked' )
           => /\ state' = "ScanOnly"
              /\ CommandsIssued' = << <<"actor", "STOP">> >> ]_vars

\* The pick candidates among the detections of an event, in the order given.
PickCandidates(detections) == SelectSeq(detections, is_candidate)

\* Those of them whose attempt counter is still below max_arm_pick_attempts.
Pickable(detections) ==
    SelectSeq(PickCandidates(detections),
              LAMBDA det : pick_attempts[det.id] < max_arm_pick_attempts)

\* The candidate nearest the image centre (the earliest of equally near ones).
ClosestOf(cands) ==
    LET i == CHOOSE i \in 1 .. Len(cands) :
                \A j \in 1 .. Len(cands) :
                    \/ sort_key(cands[i]) < sort_key(cands[j])
                    \/ sort_key(cands[i]) = sort_key(cands[j]) /\ i <= j
    IN cands[i]

\* cmd is the arm's PICK at the bbox centre of det rounded to a nearest
\* integer, sent with the FSM in PickUpEgg.
IsPickOf(cmd, det) ==
    /\ cmd.dev = "arm" /\ cmd.cmd = "PICK"
    /\ Abs(2 * cmd.x - center2(det)) <= 1
    /\ Abs(2 * cmd.y - center2_y(det)) <= 1
    /\ cmd.st = "PickUpEgg"

\* A Detection with at least one pick candidate is handled in a patrol state
\* while the actor is inferred moving.
PatrolToPick(detections) ==
    /\ HandleDetectionOf(detections)
    /\ state \in {"ScanAndMove", "ScanOnly", "MoveOnly"}
    /\ actor_motion # "STOPPED"
    /\ PickCandidates(detections) # <<>>

\* What such a step does: STOP goes to the actor first, from the patrol state;
\* acknowledged, commence_pick fires, every arm command is sent from
\* PickUpEgg, and if targets is not empty the first of them picks its nearest
\* member; not acknowledged, nothing else happens.
StopThenPick(targets) ==
    /\ ev_cmds' # <<>>
    /\ ev_cmds'[1].dev = "actor" /\ ev_cmds'[1].cmd = "STOP" /\ ev_cmds'[1].st = state
    /\ IF ev_cmds'[1].res = "ack"
       THEN /\ ev_trans' # <<>>
            /\ ev_trans'[1].event = "commence_pick" /\ ev_trans'[1].target = "PickUpEgg"
            /\ \A i \in 1 .. Len(ev_cmds') : ev_cmds'[i].dev = "arm" => ev_cmds'[i].st = "PickUpEgg"
            /\ targets # <<>> =>
                  /\ Len(ev_cmds') >= 2
                  /\ IsPickOf(ev_cmds'[2], ClosestOf(targets))
       ELSE /\ ev_trans' = <<>>
            /\ Len(ev_cmds') = 1

PickCompletion(status) ==
    /\ HandleArmStatusOf(status)
    /\ ~status.is_busy
    /\ state = "PickUpEgg"
    /\ current_target # <<>>
    /\ pick_queue = <<>>
    /\ waiting_for_arm

\* The pick is completed, finish_picking alone fires and the FSM is in
\* ScanAndMove with the pick cycle cleared.
PickCycleClosed ==
    /\ Len(ev_trans') = 1
    /\ ev_trans'[1].event = "finish_picking" /\ ev_trans'[1].source = "PickUpEgg"
    /\ state' = "ScanAndMove"
    /\ current_target' = <<>> /\ pick_queue' = <<>> /\ ~waiting_for_arm'

\* C18 as stated (pick completion): handling ArmStatus(is_busy = false)
\* completes the current pick, fires finish_picking, leaves the FSM in
\* ScanAndMove with the pick cycle cleared, and the actor receives
\* MOVE_FORWARD.
C18_PickCompletion ==
    [][\A status \in ArmStatuses :
          PickCompletion(status) =>
              /\ PickCycleClosed
              /\ CommandsIssued' = << <<"actor", "MOVE_FORWARD">> >>]_vars

\* C18 as amended: the same, except that no command is sent when the
\* inferred motion is already FORWARD (an actor status with is_moving = true
\* was handled during the pick).
C18_PickCompletionUnlessForward ==
    [][\A status \in ArmStatuses :
          PickCompletion(status) =>
              /\ PickCycleClosed
              /\ CommandsIssued' = IF actor_motion = "FORWARD" THEN <<>>
                                   ELSE << <<"actor", "MOVE_FORWARD">> >>]_vars

\* C18 witness: finish_picking has taken the FSM from PickUpEgg to
\* ScanAndMove after a pick, the cycle is cleared and MOVE_FORWARD was sent.
C18_Witness ==
    /\ state = "ScanAndMove"
    /\ Len(ev_trans) = 1
    /\ ev_trans[1].event = "finish_picking"
    /\ CommandsIssued = << <<"actor", "MOVE_FORWARD">> >>
    /\ current_target = <<>> /\ pick_queue = <<>> /\ ~waiting_for_arm
    /\ \E i \in DetectionIds : pick_attempts[i] > 0

(***************************************************************************)
(* Properties of the motion commands on the bus (specification             *)
(* SpecCommand).                                                           *)
(***************************************************************************)
\* C19 (unacknowledged command): when bus.request has returned None for want
\* of an ACK, the request's wait is no longer pending, and the helper that
\* gets false from the link leaves the inferred motion as it was.
C19_NoAckNoMotionChange ==
    /\ [](req_ret["actor"] = "absent" =>
             \A i \in 1 .. Len(pending_waits) : pending_waits[i] # "actor")
    /\ [][(CommandReturn /\ req_ret["actor"] = "absent") =>
             /\ actor_motion' = actor_motion
             /\ ev_cmds'[1].res = "nack"]_vars
    /\ [][(CommandInProgress /\ CommandInProgress') => actor_motion' = actor_motion]_vars

\* C19 witness: command_move_forward has come back false after a timeout: the
\* wait is gone and the inferred motion is still STOPPED.
C19_Witness ==
    /\ req_ret["actor"] = "absent"
    /\ pending_waits = <<>>
    /\ ev_cmds # <<>>
    /\ ev_cmds[1].cmd = "MOVE_FORWARD" /\ ev_cmds[1].res = "nack"
    /\ actor_motion = "STOPPED"

(***************************************************************************)
(* Properties of the frame codec (specification SpecCodec).                *)
(***************************************************************************)
\* extract_frames has returned exactly the frame that was encoded, with a
\* good checksum, and has emptied the buffer.
RoundTripExact ==
    /\ Len(codec_frames) = 1
    /\ codec_frames[1].group = codec_payload[1]
    /\ codec_frames[1].payload = Tail(codec_payload)
    /\ codec_frames[1].crc_ok
    /\ codec_buffer = <<>>

\* C20 as stated (codec round trip): for every payload of a group byte and
\* any number of data bytes, extract_frames on the encoded bytes returns
\* exactly one frame with the encoded group and payload and crc_ok true, and
\* leaves the buffer empty.
C20_CodecRoundTrip == codec_pc = "decoded" => RoundTripExact

\* C20 as amended: the same for the payloads whose default length
\* (payload + 3) fits the length byte, that is of at most 252 bytes.
C20_CodecRoundTripFitting ==
    (codec_pc = "decoded" /\ default_length(codec_payload) < ByteRange) => RoundTripExact

\* C20 witness: a payload whose data bytes are the footer itself has made
\* the round trip.
C20_Witness ==
    /\ codec_pc = "decoded"
    /\ codec_payload = <<GROUP_COMMAND, FOOTER_BYTE, FOOTER_BYTE>>
    /\ RoundTripExact

(***************************************************************************)
(* Properties of the codec under the bus reader (specification SpecStream).*)
(***************************************************************************)
\* The frame on the line was written with the length its payload has.
WellFormedWritten == codec_payload # <<>> /\ codec_length = default_length(codec_payload)

\* Every byte of the line has been read and every call has returned.
StreamRead == codec_stream = <<>> /\ codec_pc = "reading"

\* The reader has dispatched a frame with a good checksum that carries the
\* group and the payload that were written.
WrittenFrameDispatched ==
    \E i \in 1 .. Len(codec_dispatched) :
        /\ codec_dispatched[i].crc_ok
        /\ codec_dispatched[i].group = codec_payload[1]
        /\ codec_dispatched[i].payload = Tail(codec_payload)

\* C21 (a frame among arbitrary bytes is found): once a stream holding an
\* uncorrupted well-formed frame between arbitrary bytes has been read, in
\* one chunk or in several with extract_frames after each, a frame with
\* crc_ok true that equals the written one has been returned.
C21_FrameFoundInStream == (WellFormedWritten /\ StreamRead) => WrittenFrameDispatched

\* The call of extract_frames that is running, or has just returned, found a
\* header: its buffer held at least a minimum frame and a header.
CallFoundHeader == Len(codec_entry) >= MIN_FRAME_SIZE /\ find_header(codec_entry) >= 0

\* That call has returned a frame or has left the buffer shorter than it
\* found it.
CallProgressed == codec_frames # <<>> \/ Len(codec_buffer) < Len(codec_entry)

\* The buffer starts with a header whose frame is not yet whole: fewer than
\* 3 + length bytes, or no footer where the length puts it nor anywhere from
\* offset 3.
AwaitsData(buffer) ==
    /\ Len(buffer) >= MIN_FRAME_SIZE
    /\ find_header(buffer) = 0
    /\ 3 + buffer[3] >= MIN_FRAME_SIZE
    /\ \/ Len(buffer) < 3 + buffer[3]
       \/ /\ ~(buffer[2 + buffer[3]] = FOOTER_BYTE /\ buffer[3 + buffer[3]] = FOOTER_BYTE)
          /\ find_footer(buffer, 3) < 0

\* Every pass of the loop that goes round again leaves the buffer shorter,
\* so a call makes at most one pass more than its buffer has bytes, and a
\* call that is running can make its next pass (MaxPasses never stops it).
ExtractTerminates ==
    /\ [][(codec_pc = "extracting" /\ codec_pc' = "extracting")
             => Len(codec_buffer') < Len(codec_buffer)]_vars
    /\ [](codec_passes <= Len(codec_entry) + 1)
    /\ [](codec_pc = "extracting" => codec_passes < MaxPasses)

\* C22 as stated (extract_frames terminates and progresses): every call of
\* extract_frames returns, and every call that finds a header returns at
\* least one frame or removes at least one byte from the buffer.
C22_TerminatesAndProgresses ==
    /\ ExtractTerminates
    /\ []((codec_pc = "returned" /\ CallFoundHeader) => CallProgressed)

\* C22 as amended: every call returns, and every call that finds a header
\* returns a frame or removes a byte unless the buffer it was given starts
\* with a header whose frame is not yet whole, in which case it waits for
\* more data and leaves the buffer as it is.
C22_TerminatesAndProgressesOrWaits ==
    /\ ExtractTerminates
    /\ []((codec_pc = "returned" /\ CallFoundHeader)
            => IF AwaitsData(codec_entry)
               THEN codec_frames = <<>> /\ codec_buffer = codec_entry
               ELSE CallProgressed)

\* C22 witness: a call on a corrupted stream has dropped bytes one at a
\* time and has returned a frame with a bad checksum.
C22_Witness ==
    /\ codec_pc = "returned"
    /\ codec_payload = <<>>
    /\ CallFoundHeader
    /\ codec_frames # <<>> /\ ~codec_frames[1].crc_ok
    /\ Len(codec_buffer) < Len(codec_entry)

\* extract_frames was given exactly the pick frame of (x_mm, y_mm) and has
\* returned.
PickFrameDecoded(x_mm, y_mm) ==
    codec_pc = "returned" /\ codec_entry = build_arm_pick_command(x_mm, y_mm)

\* C23 (arm pick round trip): for all coordinates in 0 .. 0xFFFF, decoding
\* the frame build_arm_pick_command builds yields one frame of group 0x04
\* with crc_ok true and a 4-byte payload whose big-endian halves are the
\* coordinates.
C23_ArmPickRoundTrip ==
    \A x_mm \in CoordValues, y_mm \in CoordValues :
        PickFrameDecoded(x_mm, y_mm) =>
            /\ Len(codec_frames) = 1
            /\ codec_frames[1].group = GROUP_COMMAND
            /\ codec_frames[1].crc_ok
            /\ codec_frames[1].payload = high_low(x_mm) \o high_low(y_mm)

\* extract_frames was given exactly the buffer of the resync scenario and
\* has returned.
ResyncDecoded == codec_pc = "returned" /\ codec_entry = ResyncBuffer

\* The call has returned exactly one frame, an actor status that parses as
\* not moving at distance 100, and has left nothing in the buffer.
OneActorStatusAt100 ==
    /\ Len(codec_frames) = 1
    /\ codec_frames[1].group = GROUP_STATUS
    /\ parse_actor_status(codec_frames[1]) = [is_moving |-> FALSE, distance_cm |-> 100]
    /\ codec_buffer = <<>>

\* C24 as stated (resync after corruption): from the buffer AA BB 24 24 05
\* 03 00 64 B5 23 23, extract_frames discards the first two bytes and returns
\* exactly one frame, an actor status with is_moving false and distance_cm
\* 100, with crc_ok true.
C24_ResyncScenario == ResyncDecoded => (OneActorStatusAt100 /\ codec_frames[1].crc_ok)

\* C24 as amended: the same, with crc_ok false: the checksum of 24 24 05 03
\* 00 64 is 0xB4 and the buffer holds 0xB5.
C24_ResyncScenarioBadCrc ==
    /\ compute_crc(SubSeq(ResyncBuffer, 3, 8)) = 180
    /\ ResyncDecoded => (OneActorStatusAt100 /\ ~codec_frames[1].crc_ok)

\* C24 witness: the scenario's buffer has been decoded in two passes of the
\* loop, the stray bytes dropped.
C24_Witness == ResyncDecoded /\ OneActorStatusAt100 /\ codec_passes = 2

\* The 8-byte frames built with the arm's fixed length byte 0x06: the status
\* request and the status frames.
ArmStatusFrames == {build_arm_status_request} \cup {arm_status_frame(flag) : flag \in {0, 1}}

\* C28 (wrong length bytes are tolerated at once): the call of extract_frames
\* made when the buffer holds exactly a complete header-to-footer frame whose
\* length byte declares more bytes than the frame has returns that frame.
C28_OverlongLengthDecodedAtOnce ==
    (codec_pc = "returned" /\ codec_entry \in ArmStatusFrames) =>
        /\ Len(codec_frames) = 1
        /\ codec_frames[1].group = GROUP_STATUS
        /\ codec_frames[1].payload = <<codec_entry[5]>>
        /\ codec_frames[1].crc_ok

\* The inferred motion a motion helper aims at.
MotionTarget(command) ==
    CASE command = "STOP" -> "STOPPED"
      [] command = "MOVE_FORWARD" -> "FORWARD"
      [] command = "TURN_90" -> "TURNING"

\* The helper of command, called in the present context, returns true at
\* once: nothing is sent and the inferred motion stays.
ShortCircuits(command) ==
    \A r \in motion_helper(command, Ctx) :
        r.ret /\ r.ev_cmds = <<>> /\ r.actor_motion = actor_motion

\* C25 (idempotent motion helpers): each of ensure_actor_stopped,
\* command_move_forward and command_turn, called while the inferred motion
\* already is its target, sends nothing to the actor and returns true, so no
\* such call gets as far as bus.request; and a helper sets the inferred
\* motion to its target when, and only when, its command is acknowledged.
C25_IdempotentMotionHelpers ==
    /\ [](\A command \in ActorCommands :
            actor_motion = MotionTarget(command) => ShortCircuits(command))
    /\ [][\A command \in ActorCommands :
            CommandCall(command) => actor_motion # MotionTarget(command)]_vars
    /\ [][CommandReturn =>
            IF ev_cmds'[1].res = "ack"
            THEN actor_motion' = MotionTarget(last_actor_cmd)
            ELSE actor_motion' = actor_motion]_vars
    /\ [][actor_motion' # actor_motion => CommandReturn]_vars

(***************************************************************************)
(* Properties of the pending waits (specification SpecBus).                *)
(***************************************************************************)
\* The wait of thread t is in the bus's pending list.
WaitPending(t) == \E i \in 1 .. Len(pending_waits) : pending_waits[i] = t

\* C27 (pending waits do not leak): a thread that is not inside bus.request
\* (it never called it, or the call returned a frame, returned absent or
\* raised) has no wait in the pending list; so with no request in progress
\* the list is empty.
C27_NoPendingWaitLeak ==
    /\ \A t \in LinkThreads : req_pc[t] = "idle" => ~WaitPending(t)
    /\ (\A t \in LinkThreads : req_pc[t] = "idle") => pending_waits = <<>>

\* C27 witness: one request has timed out and the other has raised on the
\* write, and the pending list is empty.
C27_Witness ==
    /\ req_pc["actor"] = "idle" /\ req_ret["actor"] = "absent"
    /\ req_pc["arm"] = "idle" /\ req_ret["arm"] = "raised"
    /\ pending_waits = <<>>

(***************************************************************************)
(* Properties of the listener fan-out (specification SpecFanout).          *)
(***************************************************************************)
\* The listeners _dispatch_frame has called with the frame, in call order.
Delivered == [i \in 1 .. Len(fan_log) |-> fan_log[i].listener]

\* C26 (listener fan-out): when _dispatch_frame returns, a frame that no
\* pending wait took has been delivered exactly once to each listener
\* registered when it was dispatched, in registration order, whether or not
\* a listener raised; a frame a wait took has been delivered to none; the
\* dispatch can always go on to its end, and the reader thread outlives it.
C26_ListenerFanout ==
    /\ [][FanoutEnd =>
            IF fan_handled THEN fan_log = <<>>
            ELSE /\ Delivered = fan_snapshot
                 /\ \A i \in 1 .. Len(fan_log) : fan_log[i].frame = fan_frame[1]]_vars
    /\ [][FanoutRead => fan_snapshot' = IF FirstMatch(pending_waits, Head(wire)) > 0
                                        THEN <<>> ELSE listeners]_vars
    /\ [](fan_handled => fan_log = <<>>)
    /\ [](\A i, j \in 1 .. Len(fan_log) : fan_log[i].listener = fan_log[j].listener => i = j)
    /\ [](fan_pc = "deliver" => ENABLED (ListenerCall \/ FanoutEnd))
    /\ [](usage_count > 0 => (reader_thread /\ fan_pc # "dead"))

\* C26 witness: a frame no wait took has been delivered to two listeners
\* after the first of them raised, and the reader is still running.
C26_Witness ==
    /\ fan_pc = "idle" /\ ~fan_handled /\ reader_thread
    /\ Len(fan_log) = 2
    /\ fan_log[1].outcome = "raise"
    /\ fan_log[1].listener < fan_log[2].listener

(***************************************************************************)
(* Properties of the FSM's timers and of ignored events (specification     *)
(* Spec).                                                                  *)
(***************************************************************************)
\* With the FSM in state s and the tasks registered, each of the two FSM
\* timers is registered only in its own state.
TimersInTheirStates(s, tasks) ==
    /\ s # "ScanOnly" => "SCAN_ONLY_TIMEOUT" \notin tasks
    /\ s # "MoveOnly" => "MOVE_ONLY_COUNTDOWN" \notin tasks

\* Every way one event can be handled from context c.
HandlerOutcomes(c) ==
    UNION { handle_detection(c, detections) : detections \in DetectionLists }
    \cup UNION { handle_actor_status(c, status) : status \in ActorStatuses }
    \cup UNION { handle_arm_status(c, status) : status \in ArmStatuses }
    \cup UNION { handle_timer(c, timer_id) :
                   timer_id \in {"SCAN_ONLY_TIMEOUT", "MOVE_ONLY_COUNTDOWN"} }

\* C29 (the FSM timers live only in their states): whenever the FSM rests
\* between events, in a state other than ScanOnly no SCAN_ONLY_TIMEOUT task
\* is registered and in a state other than MoveOnly no MOVE_ONLY_COUNTDOWN
\* task is.  The second conjunct is the step that keeps it so: from any
\* state with timers registered only in their states, whichever they are,
\* every handler that returns leaves them registered only in their states.
C29_TimersOnlyInTheirStates ==
    /\ [](dispatch_thread # "blocked" => TimersInTheirStates(state, sched_tasks))
    /\ [](sched_lock = "free" =>
            \A s \in States \ {"Idle"},
               tasks \in SUBSET {"SCAN_ONLY_TIMEOUT", "MOVE_ONLY_COUNTDOWN"} :
                TimersInTheirStates(s, tasks) =>
                    \A r \in HandlerOutcomes([Ctx EXCEPT !.state = s, !.sched_tasks = tasks]) :
                        r.halt # "blocked" => TimersInTheirStates(r.state, r.sched_tasks))

\* C29 witness: the FSM rests in PickUpEgg, entered from ScanAndMove with
\* both timers cancelled on the way in, and no timer is registered.
C29_Witness ==
    /\ state = "PickUpEgg" /\ dispatch_thread = "run"
    /\ ev_trans # <<>> /\ ev_trans[1].event = "commence_pick"
    /\ sched_tasks = {} /\ sched_lock = "free"

\* C30 (detections are ignored while turning): a Detection event handled
\* while the FSM is in TurnFirst or TurnSecond, with or without pick
\* candidates, sends no command to the actor or the arm and leaves the FSM
\* state and the inferred motion as they were.
C30_DetectionIgnoredWhileTurning ==
    [][\A detections \in DetectionLists :
          (HandleDetectionOf(detections) /\ state \in {"TurnFirst", "TurnSecond"}) =>
              /\ ev_cmds' = <<>>
              /\ state' = state
              /\ actor_motion' = actor_motion]_vars

(***************************************************************************)
(* Properties of the port handle (specification SpecPort).                 *)
(***************************************************************************)

\* C31 (one port per bus): under every interleaving of the reader with the
\* threads that send, every Serial object that is open is the one
\* self._serial names, so at most one is open, the port is not opened again
\* while one is open and no open one is dropped unclosed; and a send_frame
\* whose _ensure_serial returned true writes with self._serial still set.
C31_OnePortPerBus ==
    /\ [](\A h \in 1 .. MaxHandles : handle_open[h] => h = serial_ref)
    /\ [][\A t \in LinkThreads : SendFrameWrite(t) => serial_ref # 0]_vars

(***************************************************************************)
(* Properties of start() and stop() (specification SpecLife).              *)
(***************************************************************************)

\* C40 (start and stop may overlap): under every interleaving of start()
\* and stop() calls of different threads, once all calls have returned a
\* reader is running if and only if the usage count is above zero; and a
\* stop() that brought the count to 0 sets and forgets only the stop Event
\* that was current when it did, never one that a start() made during its
\* teardown.
C40_StartStopOverlap ==
    /\ []((\A t \in LinkThreads : life_pc[t] = "idle") =>
            ((\E e \in 1 .. MaxEvents : ReaderAlive(e)) <=> usage_count > 0))
    /\ [][\A t \in LinkThreads :
            (TeardownSet(t) \/ TeardownClear(t)) => bus_stop_event \in {0, life_seen[t]}]_vars

(***************************************************************************)
(* Properties of the two links on one bus (specification SpecLinks).       *)
(***************************************************************************)

\* C32 (no status cross-talk): the status a link has cached, and the status
\* a read_status of that link returned, were decoded from a frame the
\* link's own device sent.
C32_NoStatusCrossTalk ==
    \A t \in LinkThreads :
        /\ link_last_status[t] # <<>> => link_last_status[t][1].dev = t
        /\ (link_ret[t].kind = "status" /\ link_ret[t].ok) => link_ret[t].frame[1].dev = t

\* C33 (an acknowledgement belongs to its command): a link command that
\* returned true was given an ACK frame that the link's device sent in
\* answer to that very command.
C33_AckBelongsToCommand ==
    \A t \in LinkThreads :
        (link_ret[t].kind = "command" /\ link_ret[t].ok) =>
            /\ link_ret[t].frame[1].dev = t
            /\ link_ret[t].frame[1].seq = link_ret[t].seq

(***************************************************************************)
(* Further properties of the FSM (specification Spec).                     *)
(***************************************************************************)

\* The transition the last handled event fired, if it fired one.
Fired(event) == \E i \in 1 .. Len(ev_trans) :
                    ev_trans[i].event = event /\ ev_trans[i].target # NotAllowed

RECURSIVE SumAttempts(_, _)
SumAttempts(attempts, ids) ==
    IF ids = {} THEN 0
    ELSE LET i == CHOOSE j \in ids : TRUE IN attempts[i] + SumAttempts(attempts, ids \ {i})

\* The picks issued so far: every arm.pick that returned is counted in
\* pick_attempts, and the counters are never cleared.
PicksIssued == SumAttempts(pick_attempts, DetectionIds)

\* The camera thread publishes a DetectionEvent.
PublishDetection ==
    /\ \E detections \in DetectionLists :
        ev_queue' = publish(ev_queue, [kind |-> "Detection", detections |-> detections])
    /\ UNCHANGED <<loop_pc, stop_event, stop_requested, dispatched>>
    /\ UNCHANGED <<fsmVars, schedVars, busVars, codecVars, fanVars, portVars, lifeVars, linkVars>>

\* The ARM_STATUS interval publishes its TimerEvent.
PublishArmPoll ==
    /\ ev_queue' = publish(ev_queue, [kind |-> "Timer", timer_id |-> "ARM_STATUS"])
    /\ UNCHANGED <<loop_pc, stop_event, stop_requested, dispatched>>
    /\ UNCHANGED <<fsmVars, schedVars, busVars, codecVars, fanVars, portVars, lifeVars, linkVars>>

\* _event_loop takes the next event and _dispatch_event hands a
\* DetectionEvent to handle_detection.
DispatchDetection ==
    /\ LoopRunning
    /\ ev_queue # <<>> /\ Head(ev_queue).kind = "Detection"
    /\ \E r \in handle_detection(Ctx, Head(ev_queue).detections) : CommitFsm(r)
    /\ ev_queue' = Tail(ev_queue)
    /\ dispatched' = "Detection"
    /\ UNCHANGED <<loop_pc, stop_event, stop_requested>>

\* _handle_timer_event for ARM_STATUS: arm.read_status() raises or returns
\* None (nothing is published) or returns the status the arm reports now,
\* which is published as an ArmStatusEvent behind the events already queued.
DispatchArmPoll ==
    /\ LoopRunning
    /\ ev_queue # <<>> /\ Head(ev_queue).kind = "Timer"
    /\ \/ ev_queue' = Tail(ev_queue)
       \/ \E status \in ArmStatuses :
            ev_queue' = publish(Tail(ev_queue),
                                [kind |-> "ArmStatus", status |-> status, read_at |-> PicksIssued])
    /\ dispatched' = "Timer"
    /\ UNCHANGED <<loop_pc, stop_event, stop_requested>>
    /\ UNCHANGED <<fsmVars, schedVars, busVars, codecVars, fanVars, portVars, lifeVars, linkVars>>

\* _dispatch_event hands an ArmStatusEvent to handle_arm_status.
DispatchArmStatus ==
    /\ LoopRunning
    /\ ev_queue # <<>> /\ Head(ev_queue).kind = "ArmStatus"
    /\ \E r \in handle_arm_status(Ctx, Head(ev_queue).status) : CommitFsm(r)
    /\ ev_queue' = Tail(ev_queue)
    /\ dispatched' = "ArmStatus"
    /\ UNCHANGED <<loop_pc, stop_event, stop_requested>>

NextPoll ==
    \/ StartPatrol
    \/ PublishDetection
    \/ PublishArmPoll
    \/ DispatchDetection
    \/ DispatchArmPoll
    \/ DispatchArmStatus

SpecPoll == Init /\ [][NextPoll]_vars

\* C35 (a pick is completed only by a status read after it started): when
\* the loop dispatches an idle ArmStatusEvent in PickUpEgg while the FSM
\* waits for the arm, so that complete_current_pick runs, the status was
\* read from the arm after the current pick was issued.
C35_PickCompletedByLaterStatus ==
    [][(/\ DispatchArmStatus
        /\ state = "PickUpEgg" /\ waiting_for_arm
        /\ ~Head(ev_queue).status.is_busy) =>
            Head(ev_queue).read_at = PicksIssued]_vars

\* The handler that has just run sent arm.pick.
PickIssued == \E i \in 1 .. Len(ev_cmds) : ev_cmds[i].dev = "arm" /\ ev_cmds[i].cmd = "PICK"

\* C36 (every pick cycle that starts with a candidate picks): while the arm
\* has acknowledged every pick it was sent, a Detection with at least one
\* pick candidate that takes the FSM into PickUpEgg has arm.pick issued
\* and leaves the FSM in PickUpEgg waiting for the arm.
C36_PickCycleWithCandidatePicks ==
    [][\A detections \in DetectionLists :
          (/\ HandleDetectionOf(detections)
           /\ PickCandidates(detections) # <<>>
           /\ Fired("commence_pick")'
           /\ ~pick_refused') =>
               /\ PickIssued'
               /\ state' = "PickUpEgg"
               /\ ~Fired("finish_picking")']_vars

\* How many times the handler that has just run sent arm.pick for id i.
PicksSentFor(i) ==
    Len(SelectSeq(ev_cmds, LAMBDA cmd : cmd.dev = "arm" /\ cmd.cmd = "PICK" /\ cmd.arg = i))

\* C37 (attempt counters are never reset): no counter exceeds
\* max_arm_pick_attempts, a counter never decreases, and a counter grows by
\* exactly the number of arm.pick calls made for its id, acknowledged or
\* not, so that over the life of the context no id is sent more than
\* max_arm_pick_attempts picks.
C37_AttemptCountersNeverReset ==
    /\ [](\A i \in DetectionIds : pick_attempts[i] <= max_arm_pick_attempts)
    /\ [][\A i \in DetectionIds : pick_attempts'[i] >= pick_attempts[i]]_vars
    /\ [][\A i \in DetectionIds :
            pick_attempts'[i] = pick_attempts[i] + PicksSentFor(i)']_vars

\* In PickUpEgg one acknowledged pick is outstanding.
WaitsForArm == state = "PickUpEgg" => (waiting_for_arm /\ current_target # <<>>)

\* Every link call of the handler that has just run returned.
LinkCallsReturned == \A i \in 1 .. Len(ev_cmds) : ev_cmds[i].res # "raise"

\* C38 (while picking the FSM always waits for the arm): the FSM starts in
\* Idle, and every handler whose link calls all return takes a
\* state in which the FSM is outside PickUpEgg or waits for the arm with a
\* current target to another such state; so as long as no link call has
\* raised, the FSM resting in PickUpEgg waits for the arm and has a target.
C38_PickingWaitsForArm ==
    [][(WaitsForArm /\ LinkCallsReturned') => WaitsForArm']_vars

C38_Witness ==
    /\ state = "PickUpEgg" /\ waiting_for_arm /\ current_target # <<>>
    /\ LinkCallsReturned /\ ~pick_refused
    /\ Fired("commence_pick")

\* C39 (no pick state outside PickUpEgg): in every state other than
\* PickUpEgg the pick queue is empty, there is no current target and the
\* FSM does not wait for the arm.
C39_NoPickStateOutsidePicking ==
    state # "PickUpEgg" =>
        /\ pick_queue = <<>>
        /\ current_target = <<>>
        /\ ~waiting_for_arm

\* Back in ScanAndMove from a pick cycle in which a pick was sent.
C39_Witness ==
    /\ state = "ScanAndMove"
    /\ Fired("finish_picking")
    /\ \E i \in DetectionIds : pick_attempts[i] > 0
    /\ pick_queue = <<>> /\ current_target = <<>> /\ ~waiting_for_arm
====
